---- MODULE Spec2Model ----
(***************************************************************************)
(* A model of static.js: an HTTP handler that serves a directory tree from *)
(* an in-memory snapshot (a Map from public path to entry) built by sync() *)
(* and looked up by accept() / answered by handle().                       *)
(*                                                                         *)
(* JavaScript strings are sequences of one-character strings, so that the  *)
(* String methods the code calls (indexOf, substring, replace, split,      *)
(* trim) are computed as the code computes them.  A value the code never   *)
(* inspects (the fixed security headers, a remote address, an error        *)
(* message) is kept as a sequence of one opaque chunk.  File contents      *)
(* (Buffers) are sequences of small numbers.                               *)
(*                                                                         *)
(* A step of the model is what the code does between two awaits or between *)
(* two calls of the dispatcher: one readdir with its lstats, one file      *)
(* read and compiled, the end of a sync() call with what awaits it, one    *)
(* accept, one handle.  Maps and entries carry the number of the sync()    *)
(* call that made them, which the code does not have; nothing the code     *)
(* does depends on it.                                                     *)
(*                                                                         *)
(* Spec follows one default handler through overlapping rebuilds; under    *)
(* SpecContent the three handlers of the tests are each built over three   *)
(* trees and rebuilt once; under SpecNegotiate one default handler is sent *)
(* requests with methods, conditions and encodings; under SpecChain two    *)
(* handlers answer in one process, or one handler has a caller's types.    *)
(***************************************************************************)
EXTENDS Integers, Sequences, FiniteSets, TLC

(***************************************************************************)
(* Bounds of the model.                                                    *)
(***************************************************************************)
\* rebuilds triggered through <prefix>/sync in a behaviour of Spec
MaxRebuilds == 2

\* rebuilds triggered through <prefix>/sync in a behaviour of SpecContent
MaxContentRebuilds == 1

\* changes of the directory tree on disk in one behaviour
MaxDiskChanges == 1

\* accepted requests whose handle() call is still to come
MaxPending == 1

(***************************************************************************)
(* JavaScript String primitives.                                           *)
(***************************************************************************)
SetMin(S) == CHOOSE x \in S : \A y \in S : x <= y

SetMax(S) == CHOOSE x \in S : \A y \in S : x >= y

\* String.prototype.indexOf(p): 0-based index of the first occurrence, or -1
IndexOf(s, p) ==
  LET at == { i \in 0..(Len(s) - Len(p)) : SubSeq(s, i + 1, i + Len(p)) = p }
  IN  IF at = {} THEN -1 ELSE SetMin(at)

\* String.prototype.lastIndexOf(p)
LastIndexOf(s, p) ==
  LET at == { i \in 0..(Len(s) - Len(p)) : SubSeq(s, i + 1, i + Len(p)) = p }
  IN  IF at = {} THEN -1 ELSE SetMax(at)

Clamp(n, len) == IF n < 0 THEN 0 ELSE IF n > len THEN len ELSE n

\* String.prototype.substring(a, b): arguments clamped to [0, length] and
\* swapped when a > b; characters a .. b-1 (0-based)
Substring(s, a, b) ==
  LET x == Clamp(a, Len(s))
      y == Clamp(b, Len(s))
      lo == IF x <= y THEN x ELSE y
      hi == IF x <= y THEN y ELSE x
  IN  SubSeq(s, lo + 1, hi)

\* String.prototype.substring(a)
SubstringFrom(s, a) == Substring(s, a, Len(s))

\* String.prototype.replace(p, r) with a string pattern: the first occurrence only
ReplaceFirst(s, p, r) ==
  LET i == IndexOf(s, p)
  IN  IF i = -1 THEN s
      ELSE SubSeq(s, 1, i) \o r \o SubSeq(s, i + Len(p) + 1, Len(s))

\* String.prototype.replace(/[c]/g, r): every occurrence of the character c
RECURSIVE ReplaceAllChar(_, _, _)
ReplaceAllChar(s, c, r) ==
  IF s = <<>> THEN <<>>
  ELSE (IF Head(s) = c THEN r ELSE <<Head(s)>>) \o ReplaceAllChar(Tail(s), c, r)

WhiteSpace == {" ", "\t"}

\* String.prototype.trim()
RECURSIVE TrimLeft(_)
TrimLeft(s) ==
  IF s /= <<>> /\ Head(s) \in WhiteSpace THEN TrimLeft(Tail(s)) ELSE s

RECURSIVE TrimRight(_)
TrimRight(s) ==
  IF s /= <<>> /\ s[Len(s)] \in WhiteSpace THEN TrimRight(SubSeq(s, 1, Len(s) - 1)) ELSE s

Trim(s) == TrimRight(TrimLeft(s))

\* String.prototype.split(c) for a one-character separator: a sequence of strings
RECURSIVE Split(_, _)
Split(s, c) ==
  LET i == IndexOf(s, <<c>>)
  IN  IF i = -1 THEN <<s>>
      ELSE <<SubSeq(s, 1, i)>> \o Split(SubSeq(s, i + 2, Len(s)), c)

\* it.replace(/;.*$/g,''): everything from the first ';' on is removed
StripParameters(s) ==
  LET i == IndexOf(s, <<";">>)
  IN  IF i = -1 THEN s ELSE SubSeq(s, 1, i)

\* s.replace(/[/]{2,}/,'/'): the first run of two or more slashes becomes one
RECURSIVE SkipSlashes(_)
SkipSlashes(s) ==
  IF s /= <<>> /\ Head(s) = "/" THEN SkipSlashes(Tail(s)) ELSE s

CollapseFirstSlashRun(s) ==
  LET i == IndexOf(s, <<"/", "/">>)
  IN  IF i = -1 THEN s
      ELSE SubSeq(s, 1, i) \o <<"/">> \o SkipSlashes(SubSeq(s, i + 1, Len(s)))

sIndex == <<"i","n","d","e","x">>

sHtml == <<"h","t","m","l">>

\* s.replace(/index.html$/,''): the pattern is not anchored at a '/', and its
\* '.' stands for any one character
StripIndexHtml(s) ==
  LET n == Len(s)
  IN  IF n >= 10 /\ SubSeq(s, n - 9, n - 5) = sIndex /\ SubSeq(s, n - 3, n) = sHtml
      THEN SubSeq(s, 1, n - 10)
      ELSE s

(***************************************************************************)
(* JavaScript objects: a function from property names to values.           *)
(***************************************************************************)
EmptyObject == [k \in {} |-> <<>>]

\* Object.assign(target, source): the source's properties win
ObjectAssign(target, source) == source @@ target

\* the value undefined
Undefined == [undefined |-> TRUE]

Has(obj, k) == k \in DOMAIN obj

(***************************************************************************)
(* Module-level constants of static.js.                                    *)
(***************************************************************************)
\* defaultHeaders as the module is loaded; the code never looks into these values
InitialDefaultHeaders ==
  ("Strict-Transport-Security" :> <<"max-age=86400">>) @@
  ("Vary" :> <<"Accept-Encoding">>) @@
  ("X-Content-Type-Options" :> <<"nosniff">>) @@
  ("X-Frame-Options" :> <<"DENY">>) @@
  ("X-XSS-Protection" :> <<"1; mode=block">>) @@
  ("Cross-Origin-Resource-Policy" :> <<"same-origin">>) @@
  ("Cross-Origin-Embedder-Policy" :> <<"require-corp">>) @@
  ("Cross-Security-Policy" :> <<"default-src 'self' ...">>)

sJs == <<"j","s">>

sJpg == <<"j","p","g">>

sPublic == <<"p","u","b","l","i","c">>

sPrivate == <<"p","r","i","v","a","t","e">>

sPublicNoCache == <<"p","u","b","l","i","c",",","n","o","-","c","a","c","h","e">>

sPublicImmutable == <<"p","u","b","l","i","c",",","i","m","m","u","t","a","b","l","e">>

sTextHtml == <<"t","e","x","t","/","h","t","m","l">>

sTextPlain == <<"t","e","x","t","/","p","l","a","i","n">>

sApplicationJavascript == <<"a","p","p","l","i","c","a","t","i","o","n","/","j","a","v","a","s","c","r","i","p","t">>

sImageJpeg == <<"i","m","a","g","e","/","j","p","e","g">>

\* the built-in type table, cut down to three of its extensions: two
\* compressible text types and one non-compressible image type
allowedTypes ==
  (sJs :> [ headers |-> ("Content-Type" :> sApplicationJavascript) @@
                        ("Cache-Control" :> sPublicNoCache),
            compress |-> TRUE ])
  @@
  (sHtml :> [ headers |-> ("Content-Type" :> sTextHtml) @@
                          ("Cache-Control" :> sPublicNoCache),
              compress |-> TRUE ])
  @@
  (sJpg :> [ headers |-> ("Content-Type" :> sImageJpeg) @@
                         ("Cache-Control" :> sPublicImmutable),
             compress |-> FALSE ])

sIdentity == <<"i","d","e","n","t","i","t","y">>

sGzip == <<"g","z","i","p">>

sBr == <<"b","r">>

Encodings == [ identity |-> sIdentity, gzip |-> sGzip, brotli |-> sBr ]

localAddresses == { <<"127.0.0.1">>, <<"::1">> }

(***************************************************************************)
(* Private helpers of static.js.                                           *)
(***************************************************************************)
\* zlib.gzip at level 9: the bytes behind a gzip header.  What the model
\* keeps of the compressor is that its output is a function of the input
\* and differs from it.
gz(uncompressed) == <<31, 139>> \o uncompressed

\* zlib.brotliCompress in text or generic mode
br(uncompressed, text) == <<(IF text THEN 206 ELSE 207)>> \o uncompressed

isText(headers) ==
  LET contentType == headers["Content-Type"]
  IN  \/ IndexOf(contentType, <<"t","e","x","t","/">>) = 0
      \/ IndexOf(contentType, <<"j","s","o","n">>) > 0
      \/ IndexOf(contentType, <<"x","m","l">>) > 0

\* crypto.createHash('sha256').update(data).digest('base64'): a base64
\* string that is a one-to-one function of the bytes; it ends in the
\* padding '=' and may hold '/' as base64 digests do
Base64Digit == <<"A", "B", "C", "D", "E", "F", "G", "H">>

Sha256Base64(data) ==
  <<"+">> \o [ i \in 1..Len(data) |-> Base64Digit[data[i] + 1] ] \o <<"/", "9", "=">>

etag(data) ==
  LET hash == Sha256Base64(data)
  IN  ReplaceAllChar(ReplaceAllChar(hash, "/", <<"-">>), "=", <<>>)

\* a negotiation that prefers gzip
bestSupportedEncodingGzipFirst(headers) ==
  LET acceptEncodingHeader ==
        Trim(IF Has(headers, "accept-encoding") THEN headers["accept-encoding"] ELSE <<>>)
      parts == Split(acceptEncodingHeader, ",")
      list == { Trim(StripParameters(parts[i])) : i \in 1..Len(parts) }
  IN  IF acceptEncodingHeader = <<>> THEN Encodings.identity
      ELSE IF acceptEncodingHeader = <<"*">> THEN Encodings.brotli
      ELSE IF sGzip \in list THEN Encodings.gzip
      ELSE IF sBr \in list THEN Encodings.brotli
      ELSE Encodings.identity

bestSupportedEncoding(headers) ==
  LET acceptEncodingHeader ==
        Trim(IF Has(headers, "accept-encoding") THEN headers["accept-encoding"] ELSE <<>>)
      parts == Split(acceptEncodingHeader, ",")
      list == { Trim(StripParameters(parts[i])) : i \in 1..Len(parts) }
  IN  IF acceptEncodingHeader = <<>> THEN Encodings.identity
      ELSE IF acceptEncodingHeader = <<"*">> THEN Encodings.brotli
      ELSE IF sBr \in list THEN Encodings.brotli
      ELSE IF sGzip \in list THEN Encodings.gzip
      ELSE Encodings.identity

\* a uriPath that knows of the query only
uriPathQueryOnly(uri) ==
  LET i1 == IndexOf(uri, <<"?">>)
  IN  IF i1 = -1 THEN uri ELSE Substring(uri, 0, i1)

uriPath(uri) ==
  LET i1 == IndexOf(uri, <<"?">>)
      i2 == IndexOf(uri, <<"#">>)
  IN  IF i1 = -1
      THEN (IF i2 = -1 THEN uri ELSE Substring(uri, 0, i2))
      ELSE IF i2 = -1 \/ i2 > i1 THEN Substring(uri, 0, i1)
      ELSE Substring(uri, 0, i2)

(***************************************************************************)
(* The options of a handler instance and what the factory derives from     *)
(* them.  An options object holds only the properties its caller gave.     *)
(***************************************************************************)
sWww == <<"w","w","w">>

root(options) ==
  IF Has(options, "root") /\ options.root /= <<>> THEN options.root ELSE sWww

\* options.prefix || ''
optionsPrefix(options) ==
  IF Has(options, "prefix") THEN options.prefix ELSE <<>>

\* the prefix taken as it is configured
prefixAsConfigured(options) == optionsPrefix(options)

\* one trailing slash of the configured prefix is dropped
prefix(options) ==
  LET p == optionsPrefix(options)
  IN  IF p /= <<>> /\ p[Len(p)] = "/" THEN Substring(p, 0, Len(p) - 1) ELSE p

disallowSharedCache(options) ==
  Has(options, "disallowSharedCache") /\ options.disallowSharedCache = TRUE

types(options) ==
  IF Has(options, "allowedFileTypes") THEN options.allowedFileTypes ELSE allowedTypes

\* names every object inherits from Object.prototype (some of them)
ObjectPrototypeNames == { <<"v","a","l","u","e","O","f">>, <<"t","o","S","t","r","i","n","g">>, <<"c","o","n","s","t","r","u","c","t","o","r">> }

\* types[ext]: an own property of the table, else a property inherited from
\* Object.prototype (a function: truthy, without headers or compress), else
\* undefined
TypeOfExtension(table, ext) ==
  IF ext \in DOMAIN table THEN table[ext]
  ELSE IF ext \in ObjectPrototypeNames THEN [builtin |-> ext]
  ELSE Undefined

\* type.headers, which Object.assign skips when it is undefined
TypeHeaders(type) == IF Has(type, "headers") THEN type.headers ELSE EmptyObject

\* type.compress as a condition
TypeCompress(type) == Has(type, "compress") /\ type.compress = TRUE

sSync == <<"/","s","y","n","c">>

\* the url that triggers a rebuild
SyncUrl(options) == prefix(options) \o sSync

(***************************************************************************)
(* The directory tree on disk: a function from the path of every existing  *)
(* node to [directory, bytes].                                             *)
(***************************************************************************)
JoinPath(dir, f) == dir \o <<"/">> \o f

\* fs.readdir(dir) succeeds
CanReaddir(tree, dir) == dir \in DOMAIN tree /\ tree[dir].directory

\* the names fs.readdir(dir) lists
Readdir(tree, dir) ==
  { SubSeq(p, Len(dir) + 2, Len(p)) :
      p \in { q \in DOMAIN tree :
                /\ Len(q) > Len(dir) + 1
                /\ SubSeq(q, 1, Len(dir) + 1) = dir \o <<"/">>
                /\ IndexOf(SubSeq(q, Len(dir) + 2, Len(q)), <<"/">>) = -1 } }

\* fs.readFile(path) succeeds
CanReadFile(tree, path) == path \in DOMAIN tree /\ ~tree[path].directory

\* what walk makes of the name f listed in dir
WalkEntry(tree, table, dir, f) ==
  LET start == LastIndexOf(f, <<"/">>) + 1
      dot == LastIndexOf(f, <<".">>) + 1
      end == IF dot = 0 THEN Len(f) ELSE dot
      path == JoinPath(dir, f)
      ext == IF end < start THEN <<>> ELSE SubstringFrom(f, end)
  IN  IF f[start + 1] = "."
      THEN [ path |-> path, directory |-> FALSE, type |-> Undefined ]
      ELSE IF tree[path].directory
      THEN [ path |-> path, directory |-> TRUE, type |-> Undefined ]
      ELSE [ path |-> path, directory |-> FALSE, type |-> TypeOfExtension(table, ext) ]

\* a walk that finds the directory among its own children, as one that
\* followed a symbolic link to it would
WalkKeptFollowing(tree, table, dir) ==
  { it \in { WalkEntry(tree, table, dir, f) : f \in Readdir(tree, dir) } :
      it.directory \/ it.type /= Undefined }
  \cup { [ path |-> dir, directory |-> TRUE, type |-> Undefined ] }

\* .filter(it=>it.directory||it.type)
WalkKept(tree, table, dir) ==
  { it \in { WalkEntry(tree, table, dir, f) : f \in Readdir(tree, dir) } :
      it.directory \/ it.type /= Undefined }

\* the key and the redirect entry of a directory candidate
DirectoryKey(options, it) == prefix(options) \o SubstringFrom(it.path, Len(root(options)))

DirectoryEntry(options, it, gen) ==
  [ headers |-> ("Location" :> CollapseFirstSlashRun(DirectoryKey(options, it) \o <<"/">>)),
    gen |-> gen ]

\* a key that keeps the file name
FileKeyWhole(options, it) ==
  prefix(options) \o SubstringFrom(it.path, Len(root(options)))

\* the key and the content entry of a file candidate read as `uncompressed`
FileKey(options, it) ==
  StripIndexHtml(prefix(options) \o SubstringFrom(it.path, Len(root(options))))

\* an entry with the validator as its only header
FileHeadersDigestOnly(options, type, uncompressed) ==
  ("ETag" :> etag(uncompressed))

FileHeaders(options, type, uncompressed) ==
  LET headers == ObjectAssign(("ETag" :> etag(uncompressed)), TypeHeaders(type))
  IN  IF disallowSharedCache(options) /\ Has(headers, "Cache-Control")
           /\ headers["Cache-Control"] /= <<>>
      THEN [ headers EXCEPT !["Cache-Control"] = ReplaceFirst(@, sPublic, sPrivate) ]
      ELSE headers

FileData(type, uncompressed) ==
  IF TypeCompress(type)
  THEN (sIdentity :> uncompressed) @@ (sGzip :> gz(uncompressed)) @@
       (sBr :> br(uncompressed, isText(type.headers)))
  ELSE (sIdentity :> uncompressed)

\* the entry when the callbacks of zlib.gzip and zlib.brotliCompress were
\* given an error for the encodings in `lost`: resolve(compressed) is called
\* with undefined, and data.gzip or data.br is undefined, which reads as
\* a missing key does
Built(entry, lost) ==
  [ entry EXCEPT !.data = [ k \in DOMAIN @ \ lost |-> @[k] ] ]

\* an entry whose validator depends on the sync() call that made it
FileEntryStamped(options, it, uncompressed, gen) ==
  [ data |-> FileData(it.type, uncompressed),
    headers |-> ObjectAssign(FileHeaders(options, it.type, uncompressed),
                             ("ETag" :> etag(uncompressed \o <<gen>>))),
    gen |-> gen ]

FileEntry(options, it, uncompressed, gen) ==
  [ data |-> FileData(it.type, uncompressed),
    headers |-> FileHeaders(options, it.type, uncompressed),
    gen |-> gen ]

\* Map.prototype.set
MapSet(map, key, value) == (key :> value) @@ map

RECURSIVE SetAll(_, _, _, _)
\* the directory candidates' entries, set as files.map(...) is called
SetAll(map, options, dirs, gen) ==
  IF dirs = {} THEN map
  ELSE LET it == CHOOSE d \in dirs : TRUE
       IN  SetAll(MapSet(map, DirectoryKey(options, it), DirectoryEntry(options, it, gen)),
                  options, dirs \ {it}, gen)

(***************************************************************************)
(* The inputs of the model: handler set-ups, directory trees, requests.    *)
(***************************************************************************)
sAbc == <<"a","b","c">>

\* a caller's table: one type, with a header of its own and an ETag
CustomTypes ==
  (sAbc :> [ headers |-> ("Content-Type" :> sTextPlain) @@
                         ("Cache-Control" :> sPublicNoCache) @@
                         ("X-Custom" :> <<"custom">>) @@
                         ("ETag" :> <<"v","1">>),
             compress |-> TRUE ])

Options1 == [ root |-> sWww ]

Options2 == [ root |-> sWww, prefix |-> <<"/","o","/">>, disallowSharedCache |-> TRUE ]

Options3 == [ root |-> sWww, prefix |-> <<"/","c">>, allowedFileTypes |-> CustomTypes ]

\* the example of the README: root 'www' and prefix 'files'
OptionsFiles == [ root |-> sWww, prefix |-> <<"f","i","l","e","s">> ]

\* the same with the prefix written as the tests write theirs
OptionsSlashFiles == [ root |-> sWww, prefix |-> <<"/","f","i","l","e","s">> ]

sPublicTwice == <<"p","u","b","l","i","c",",","m","a","x","-","a","g","e","=","9",",","p","u","b","l","i","c">>

\* a caller's table whose Cache-Control names 'public' twice
PublicTwiceTypes ==
  (sAbc :> [ headers |-> ("Content-Type" :> sTextPlain) @@
                         ("Cache-Control" :> sPublicTwice),
             compress |-> FALSE ])

Options4 ==
  [ root |-> sWww, disallowSharedCache |-> TRUE, allowedFileTypes |-> PublicTwiceTypes ]

Directory == [ directory |-> TRUE, bytes |-> <<>> ]

File(bytes) == [ directory |-> FALSE, bytes |-> bytes ]

W(rel) == sWww \o rel

TreeA ==
  (sWww :> Directory) @@
  (W(<<"/","a",".","j","s">>) :> File(<<2>>)) @@
  (W(<<"/",".","h",".","j","s">>) :> File(<<3>>)) @@
  (W(<<"/","d">>) :> Directory) @@
  (W(<<"/","d","/","i","n","d","e","x",".","h","t","m","l">>) :> File(<<4, 4>>))

TreeB ==
  (sWww :> Directory) @@
  (W(<<"/","a",".","j","s">>) :> File(<<5>>)) @@
  (W(<<"/","p",".","j","p","g">>) :> File(<<6, 0>>)) @@
  (W(<<"/","f",".","x","y","z">>) :> File(<<3>>)) @@
  (W(<<"/",".","s">>) :> Directory) @@
  (W(<<"/",".","s","/","a",".","j","s">>) :> File(<<2>>)) @@
  (W(<<"/","s","y","n","c">>) :> Directory)

TreeC ==
  (sWww :> Directory) @@
  (W(<<"/","c",".","a","b","c">>) :> File(<<7>>)) @@
  (W(<<"/","t",".","v","a","l","u","e","O","f">>) :> File(<<1, 2>>)) @@
  (W(<<"/","d">>) :> Directory) @@
  (W(<<"/","d","/","i","n","d","e","x",".","h","t","m","l">>) :> File(<<4, 4>>))

\* two files of the caller's type, with different bytes
TreeD ==
  (sWww :> Directory) @@
  (W(<<"/","c",".","a","b","c">>) :> File(<<7>>)) @@
  (W(<<"/","e",".","a","b","c">>) :> File(<<1>>))

\* the document of the README's example, and a file of a caller's type
TreeE ==
  (sWww :> Directory) @@
  (W(<<"/","d","o","c",".","h","t","m","l">>) :> File(<<3>>)) @@
  (W(<<"/","c",".","a","b","c">>) :> File(<<7>>))

\* a directory with its index file, and next to it a file whose name is
\* the directory's followed by index.html
TreeF ==
  (sWww :> Directory) @@
  (W(<<"/","a",".","j","s">>) :> File(<<2>>)) @@
  (W(<<"/","d">>) :> Directory) @@
  (W(<<"/","d","/","i","n","d","e","x",".","h","t","m","l">>) :> File(<<4, 4>>)) @@
  (W(<<"/","d","i","n","d","e","x",".","h","t","m","l">>) :> File(<<5, 1>>))

\* the trees the directory on disk moves among; the state names a tree by
\* its place in this list
Trees == << TreeA, TreeB, TreeC, TreeD, TreeE, TreeF >>

\* request targets, relative to a prefix
RelativeUrls ==
  { <<"/">>, <<"/","i","n","d","e","x",".","h","t","m","l">>, <<"/","a",".","j","s">>, <<"/","a",".","j","s","?","v">>, <<"/","d">>, <<"/","d","/">>, <<"/","d","/","i","n","d","e","x",".","h","t","m","l">>,
    <<"/",".","h",".","j","s">>, <<"/",".","s","/","a",".","j","s">>, <<"/","f",".","x","y","z">>, <<"/","p",".","j","p","g">>, <<"/","t",".","v","a","l","u","e","O","f">>, <<"/","c",".","a","b","c">>,
    <<"/","s","y","n","c">>, <<"/","s","y","n","c","?","x">>, <<"/","/","s","y","n","c">> }

Prefixes == { <<>>, <<"/","o">>, <<"/","c">> }

Urls == { p \o r : p \in Prefixes, r \in RelativeUrls }

Methods == { "GET" }

RequestHeaders == { EmptyObject }

RemoteAddresses == { <<"127.0.0.1">>, <<"::1">>, <<"10.0.0.1">> }

\* the HTTP/2 sessions of the server; session 0 stands for a request that
\* has no request.stream.session (HTTP/1)
Sessions == { 1 }

\* every request the model knows
Requests ==
  [ url : Urls, method : Methods, headers : RequestHeaders,
    remoteAddress : RemoteAddresses, session : {0} \cup Sessions ]

\* request headers, as the transport gives them to the handler (lower-case
\* names)
AcceptEncoding(value) == ("accept-encoding" :> value)

IfNoneMatchHeader(value) == ("if-none-match" :> value)

\* What the clients and the disk do in a behaviour: the set-ups and trees it
\* may start from, the trees the disk may change to, the requests that are
\* made (target relative to the handler's prefix, caller address, session;
\* GET without headers, or with the method and headers given in extra, or
\* with the whole target given in absolute), the encodings whose compression
\* may fail, and the number of rebuilds that are triggered.
Profiles ==
  [ rebuilds |->
      [ setups |-> { <<Options1>> },
        trees |-> { 1, 3 },
        requests |-> { <<"/","a",".","j","s">>, <<"/","s","y","n","c">> } \X { <<"127.0.0.1">> } \X { 0, 1 },
        extra |-> {},
        absolute |-> {},
        lost |-> { {} },
        rebuilds |-> MaxRebuilds ],
    content |->
      [ setups |-> { <<Options1>>, <<Options2>>, <<Options3>> },
        trees |-> { 1, 2, 3 },
        requests |-> { << <<"/","a",".","j","s">>, <<"10.0.0.1">>, 0 >>,
                       << <<"/","d">>, <<"10.0.0.1">>, 0 >>,
                       << <<"/","d","/">>, <<"10.0.0.1">>, 1 >>,
                       << <<"/","s","y","n","c">>, <<"::1">>, 0 >>,
                       << <<"/","s","y","n","c">>, <<"10.0.0.1">>, 0 >> },
        extra |-> {},
        absolute |-> {},
        lost |-> { {} },
        rebuilds |-> MaxContentRebuilds ],
    negotiate |->
      [ setups |-> { <<Options1>> },
        trees |-> { 1, 2 },
        requests |-> { << <<"/","a",".","j","s">>, <<"10.0.0.1">>, 0 >>,
                       << <<"/","d","/">>, <<"10.0.0.1">>, 1 >>,
                       << <<"/","s","y","n","c">>, <<"::1">>, 0 >> },
        absolute |-> {},
        lost |-> { {} },
        extra |-> { << <<"/","a",".","j","s">>, <<"10.0.0.1">>, 0, "GET", AcceptEncoding(<<"g","z","i","p",","," ","b","r">>) >>,
                    << <<"/","a",".","j","s">>, <<"10.0.0.1">>, 0, "HEAD", AcceptEncoding(<<"g","z","i","p">>) >>,
                    << <<"/","p",".","j","p","g">>, <<"10.0.0.1">>, 0, "GET", AcceptEncoding(<<"b","r">>) >>,
                    << <<"/","a",".","j","s">>, <<"10.0.0.1">>, 0, "DELETE", EmptyObject >>,
                    << <<"/","a",".","j","s","?","v","#","f">>, <<"10.0.0.1">>, 0, "GET",
                       IfNoneMatchHeader(etag(<<2>>)) >> },
        rebuilds |-> MaxContentRebuilds ],
    chain |->
      [ setups |-> { <<Options1, Options2>>, <<Options3>> },
        trees |-> { 1, 2, 4 },
        requests |-> { << <<"/","a",".","j","s">>, <<"10.0.0.1">>, 0 >>,
                       << <<"/","a",".","j","s">>, <<"10.0.0.1">>, 1 >>,
                       << <<"/","d">>, <<"10.0.0.1">>, 0 >>,
                       << <<"/","e",".","a","b","c">>, <<"10.0.0.1">>, 0 >>,
                       << <<"/","e",".","a","b","c">>, <<"10.0.0.1">>, 1 >>,
                       << <<"/","s","y","n","c">>, <<"127.0.0.1">>, 0 >> },
        extra |-> {},
        absolute |-> {},
        lost |-> { {} },
        rebuilds |-> MaxContentRebuilds ],
    options |->
      [ setups |-> { <<OptionsFiles>>, <<OptionsSlashFiles>>, <<Options4>> },
        trees |-> { 4, 5 },
        requests |-> {},
        extra |-> {},
        absolute |-> { << <<"/","f","i","l","e","s","/","d","o","c",".","h","t","m","l">>, <<"10.0.0.1">>, 0 >>,
                       << <<"/","f","i","l","e","s","/","d","o","c",".","h","t","m","l">>, <<"10.0.0.1">>, 1 >>,
                       << <<"/","f","i","l","e","s","/","s","y","n","c">>, <<"::1">>, 0 >>,
                       << <<"/","c",".","a","b","c">>, <<"10.0.0.1">>, 0 >>,
                       << <<"/","s","y","n","c">>, <<"::1">>, 0 >> },
        lost |-> { {} },
        rebuilds |-> MaxContentRebuilds ],
    faults |->
      [ setups |-> { <<Options1>> },
        trees |-> { 1, 2 },
        requests |-> { << <<"/","a",".","j","s">>, <<"10.0.0.1">>, 1 >>,
                       << <<"/","s","y","n","c">>, <<"::1">>, 0 >> },
        extra |-> { << <<"/","a",".","j","s">>, <<"10.0.0.1">>, 0, "GET", AcceptEncoding(<<"b","r">>) >> },
        absolute |-> {},
        lost |-> { {}, { sBr } },
        rebuilds |-> MaxContentRebuilds ],
    keys |->
      [ setups |-> { <<Options1>>, <<Options2>> },
        trees |-> { 1, 6 },
        requests |-> { << <<"/","d">>, <<"10.0.0.1">>, 0 >>,
                       << <<"/","d","/">>, <<"10.0.0.1">>, 1 >>,
                       << <<"/","d","i","n","d","e","x",".","h","t","m","l">>, <<"10.0.0.1">>, 0 >>,
                       << <<"/","s","y","n","c">>, <<"::1">>, 0 >> },
        extra |-> {},
        absolute |-> {},
        lost |-> { {} },
        rebuilds |-> MaxContentRebuilds ] ]

(***************************************************************************)
(* The state.                                                              *)
(***************************************************************************)
VARIABLES
  env,             \* the name of the behaviour's profile (fixed by Init)
  opts,            \* the options of the handler instances (fixed by Init)
  disk,            \* the directory tree on disk, by its place in Trees
  diskChanges,     \* how often the tree has changed
  defaultHeaders,  \* the module-level object defaultHeaders
  cache,           \* per instance: the Map the closure variable cache refers to
  ready,           \* per instance: "idle", "building", "ready" (the factory
                   \* returned the handler) or "failed" (its promise rejected)
  runs,            \* the sync() calls in progress, by generation number
  nextGen,         \* the generation number of the next sync() call
  rebuilds,        \* how many rebuilds were triggered
  replies,         \* how many replies to rebuild requests were written
  sessions,        \* per HTTP/2 session: <<>> or <<the Map in session.cache>>
  pending,         \* what accept returned and handle has not yet been given
  installed,       \* per instance: the generation whose sync() last returned
  resp             \* the response the last step wrote, if it wrote one

vars ==
  << env, opts, disk, diskChanges, defaultHeaders, cache, ready, runs, nextGen,
     rebuilds, replies, sessions, pending, installed, resp >>

Profile == Profiles[env]

Instances == DOMAIN opts

\* new Map().  Every Map carries the generation number of the sync() call
\* that made it (0 for the factory's own) and so does every entry; unfinished
\* holds the file candidates whose entry was not set when the Map became the
\* active one; src and clean record the tree the call started on and
\* whether the tree stayed as it was while the call ran.
NewMap ==
  [ gen |-> 0, map |-> EmptyObject, unfinished |-> {}, src |-> 0, clean |-> FALSE ]

RootCandidate(options) ==
  [ path |-> root(options), directory |-> TRUE, type |-> Undefined ]

\* sync() up to its first await: updated is empty, walk(root) has called readdir
NewRun(i, g, trigger, tree) ==
  [ inst |-> i, gen |-> g, phase |-> "walk",
    dirs |-> { root(opts[i]) },
    files |-> { RootCandidate(opts[i]) },
    todo |-> {},
    updated |-> EmptyObject,
    trigger |-> trigger,
    src |-> tree, clean |-> TRUE ]

NoRequest ==
  [ url |-> <<>>, method |-> "", headers |-> EmptyObject,
    remoteAddress |-> <<>>, session |-> 0 ]

NoResp ==
  [ kind |-> "", inst |-> 0, status |-> 0, headers |-> EmptyObject, body |-> <<>>,
    request |-> NoRequest, found |-> <<>>, gen |-> 0, looked |-> 0, arrival |-> 0,
    busy |-> FALSE, active |-> 0 ]

\* options.headers=Object.assign(defaultHeaders,options.headers)
FactoryHeaders(headers, options) ==
  ObjectAssign(headers, IF Has(options, "headers") THEN options.headers ELSE EmptyObject)

\* The application creates its handlers one after the other
\* (handler = await factory(options)) and starts its server once it has them
\* all.  Init is the state in which the first factory call has reached the
\* first await of its sync().
InitOf(profile) ==
  /\ env = profile
  /\ opts \in Profiles[profile].setups
  /\ disk \in Profiles[profile].trees
  /\ diskChanges = 0
  /\ defaultHeaders = FactoryHeaders(InitialDefaultHeaders, opts[1])
  /\ cache = [ i \in Instances |-> NewMap ]
  /\ ready = [ i \in Instances |-> IF i = 1 THEN "building" ELSE "idle" ]
  /\ runs = (1 :> NewRun(1, 1, <<>>, disk))
  /\ nextGen = 2
  /\ rebuilds = 0
  /\ replies = 0
  /\ sessions = [ s \in Sessions |-> <<>> ]
  /\ pending = {}
  /\ installed = [ i \in Instances |-> 0 ]
  /\ resp = NoResp

Init == InitOf("rebuilds")

InitContent == InitOf("content")

InitNegotiate == InitOf("negotiate")

InitChain == InitOf("chain")

InitOptions == InitOf("options")

InitFaults == InitOf("faults")

InitKeys == InitOf("keys")

\* a server that is started whatever became of the factory calls
ListeningRegardless == TRUE

\* the server has been started
Listening == \A i \in Instances : ready[i] = "ready"

\* the last step's response, if any, has been noted
Quiet == resp = NoResp

(***************************************************************************)
(* sync().                                                                 *)
(***************************************************************************)
Drop(f, x) == [ y \in DOMAIN f \ {x} |-> f[y] ]

\* one directory of the walk: readdir, then lstat of each name that is not
\* hidden.  When it was the last one, files.map(...) runs at once: every
\* directory candidate sets its redirect entry and every file candidate
\* calls readFile.
WalkStep(run, tree, dir) ==
  LET options == opts[run.inst]
      kept == WalkKept(tree, types(options), dir)
      dirs == (run.dirs \ {dir}) \cup { it.path : it \in { k \in kept : k.directory } }
      files == run.files \cup kept
  IN  IF dirs /= {}
      THEN [ run EXCEPT !.dirs = dirs, !.files = files ]
      ELSE [ run EXCEPT !.dirs = {}, !.files = {}, !.phase = "compile",
                        !.todo = { it \in files : ~it.directory },
                        !.updated = SetAll(EmptyObject, options,
                                           { it \in files : it.directory }, run.gen) ]

WalkDir(g, dir) ==
  /\ Quiet
  /\ g \in DOMAIN runs
  /\ runs[g].phase = "walk"
  /\ dir \in runs[g].dirs
  /\ CanReaddir(Trees[disk], dir)
  /\ runs' = [ runs EXCEPT ![g] = WalkStep(runs[g], Trees[disk], dir) ]
  /\ UNCHANGED << env, opts, disk, diskChanges, defaultHeaders, cache, ready, nextGen,
                  rebuilds, replies, sessions, pending, installed, resp >>

\* one file candidate: readFile, etag, gz, br, updated.set
CompileStep(run, tree, it, lost) ==
  [ run EXCEPT
      !.todo = @ \ {it},
      !.updated = MapSet(@, FileKey(opts[run.inst], it),
                         Built(FileEntry(opts[run.inst], it, tree[it.path].bytes, run.gen),
                               lost)) ]

CompileFile(g, it) ==
  /\ Quiet
  /\ g \in DOMAIN runs
  /\ runs[g].phase = "compile"
  /\ it \in runs[g].todo
  /\ CanReadFile(Trees[disk], it.path)
  /\ \E lost \in Profile.lost :
       runs' = [ runs EXCEPT ![g] = CompileStep(runs[g], Trees[disk], it, lost) ]
  /\ UNCHANGED << env, opts, disk, diskChanges, defaultHeaders, cache, ready, nextGen,
                  rebuilds, replies, sessions, pending, installed, resp >>

\* sync() without the await of Promise.all
CanPublishEarly(run) == run.phase = "compile"

\* the await of Promise.all(files.map(...)) is over
CanPublish(run) == run.phase = "compile" /\ run.todo = {}

\* a sync() that returns without the assignment to cache
PublishedNothing(run) == cache[run.inst]

\* the Map that cache=updated makes the active one
Published(run) ==
  [ gen |-> run.gen, map |-> run.updated, unfinished |-> run.todo,
    src |-> run.src, clean |-> run.clean ]

\* a 500 written without headers
FailureHeadersNone == EmptyObject

\* the headers and the body of the reply to a failed rebuild
FailureHeaders == ("Content-Type" :> sTextPlain)

FailureBody == <<"err.message">>

\* what handle writes once its await of sync() is over
SyncReply(run, status, headers, body, active) ==
  [ NoResp EXCEPT !.kind = "sync", !.inst = run.inst, !.status = status,
                  !.headers = headers, !.body = body, !.request = run.trigger[1],
                  !.gen = run.gen, !.active = active ]

\* the factory call of the instance after i, which the application makes
\* when instance i's has returned
NextFactory(i) ==
  IF i + 1 \in Instances THEN (nextGen :> NewRun(i + 1, nextGen, <<>>, disk)) ELSE EmptyObject

\* cache=updated; then the factory returns the handler, or handle replies 200
SyncPublish(g) ==
  /\ Quiet
  /\ g \in DOMAIN runs
  /\ CanPublish(runs[g])
  /\ cache' = [ cache EXCEPT ![runs[g].inst] = Published(runs[g]) ]
  /\ installed' = [ installed EXCEPT ![runs[g].inst] = g ]
  /\ IF runs[g].trigger = <<>>
     THEN /\ ready' = [ j \in Instances |->
                          IF j = runs[g].inst THEN "ready"
                          ELSE IF j = runs[g].inst + 1 THEN "building" ELSE ready[j] ]
          /\ runs' = NextFactory(runs[g].inst) @@ Drop(runs, g)
          /\ nextGen' = IF runs[g].inst + 1 \in Instances THEN nextGen + 1 ELSE nextGen
          /\ defaultHeaders' =
               IF runs[g].inst + 1 \in Instances
               THEN FactoryHeaders(defaultHeaders, opts[runs[g].inst + 1])
               ELSE defaultHeaders
          /\ resp' = NoResp
          /\ replies' = replies
     ELSE /\ ready' = ready
          /\ runs' = Drop(runs, g)
          /\ nextGen' = nextGen
          /\ defaultHeaders' = defaultHeaders
          /\ resp' = SyncReply(runs[g], 200, EmptyObject, <<>>, cache'[runs[g].inst].gen)
          /\ replies' = replies + 1
  /\ UNCHANGED << env, opts, disk, diskChanges, rebuilds, sessions, pending >>

\* a filesystem call of the run is outstanding (and so may fail)
FsOutstanding(run) == run.phase = "walk" \/ run.todo /= {}

\* a sync() that fills the active Map as it goes
AfterFailurePartial(run) ==
  [ gen |-> run.gen, map |-> run.updated, unfinished |-> run.todo,
    src |-> run.src, clean |-> run.clean ]

\* what the failed call leaves of the active Map
AfterFailure(run) == cache[run.inst]

\* readdir, lstat or readFile rejects (the node is gone, or any other error):
\* sync() throws; the factory's promise rejects, or handle replies 500
SyncFail(g) ==
  /\ Quiet
  /\ g \in DOMAIN runs
  /\ FsOutstanding(runs[g])
  /\ cache' = [ cache EXCEPT ![runs[g].inst] = AfterFailure(runs[g]) ]
  /\ runs' = Drop(runs, g)
  /\ IF runs[g].trigger = <<>>
     THEN /\ ready' = [ ready EXCEPT ![runs[g].inst] = "failed" ]
          /\ resp' = NoResp
          /\ replies' = replies
     ELSE /\ ready' = ready
          /\ resp' = SyncReply(runs[g], 500, FailureHeaders, FailureBody,
                               cache'[runs[g].inst].gen)
          /\ replies' = replies + 1
  /\ UNCHANGED << env, opts, disk, diskChanges, defaultHeaders, nextGen, rebuilds,
                  sessions, pending, installed >>

\* the tree changes under the handler's feet
DiskChange ==
  /\ Quiet
  /\ diskChanges < MaxDiskChanges
  /\ disk' \in Profile.trees \ {disk}
  /\ diskChanges' = diskChanges + 1
  /\ runs' = [ g \in DOMAIN runs |-> [ runs[g] EXCEPT !.clean = FALSE ] ]
  /\ UNCHANGED << env, opts, defaultHeaders, cache, ready, nextGen, rebuilds, replies,
                  sessions, pending, installed, resp >>

(***************************************************************************)
(* accept(request, response, hostname, remoteAddress).                     *)
(***************************************************************************)
HasSession(request) == request.session /= 0

\* an accept that looks into a Map kept from the first request on
sessionCacheKept(i, request) ==
  IF \E s \in Sessions : sessions[s] /= <<>>
  THEN sessions[CHOOSE s \in Sessions : sessions[s] /= <<>>][1]
  ELSE cache[i]

\* an accept that looks into the active Map whatever the session holds
sessionCacheActive(i, request) == cache[i]

\* request.stream.session.cache||(request.stream.session.cache=cache), or
\* cache when the request has no session
sessionCache(i, request) ==
  IF HasSession(request)
  THEN (IF sessions[request.session] /= <<>> THEN sessions[request.session][1] ELSE cache[i])
  ELSE cache[i]

\* an accept that attaches nothing
SessionsAfterAcceptNone(i, request) == sessions

\* the assignment inside that expression
SessionsAfterAccept(i, request) ==
  IF HasSession(request) /\ sessions[request.session] = <<>>
  THEN [ sessions EXCEPT ![request.session] = <<cache[i]>> ]
  ELSE sessions

\* Map.prototype.get: <<>> stands for undefined
MapGet(map, key) == IF key \in DOMAIN map THEN <<map[key]>> ELSE <<>>

\* an accept that does not look at the caller's address
IsSyncRequestAnyAddress(i, request, remoteAddress) ==
  request.url = SyncUrl(opts[i])

\* the condition under which a miss becomes a rebuild match
IsSyncRequest(i, request, remoteAddress) ==
  request.url = SyncUrl(opts[i]) /\ remoteAddress \in localAddresses

\* what accept returns: "none" for null, "rebuild" for [ null, request,
\* response ], "resource" for [ found, request, response ]
AcceptResult(i, request) ==
  LET path == uriPath(request.url)
      found == MapGet(sessionCache(i, request).map, path)
  IN  IF found = <<>>
      THEN (IF IsSyncRequest(i, request, request.remoteAddress) THEN "rebuild" ELSE "none")
      ELSE "resource"

\* a sync() call of instance i is in progress
Rebuilding(i) == \E g \in DOMAIN runs : runs[g].inst = i

\* the array accept returns, with the generations of the Map that was
\* looked into and of the Map that was the active one, and whether a sync()
\* call was in progress
Accepted(i, request) ==
  [ found |-> MapGet(sessionCache(i, request).map, uriPath(request.url)),
    request |-> request,
    inst |-> i,
    looked |-> sessionCache(i, request).gen,
    arrival |-> cache[i].gen,
    busy |-> Rebuilding(i) ]

RebuildsAhead == Cardinality({ t \in pending : t.found = <<>> })

\* the requests the clients of the profile send to instance i
ProfileRequests(i) ==
  { [ url |-> prefix(opts[i]) \o q[1], method |-> "GET", headers |-> EmptyObject,
      remoteAddress |-> q[2], session |-> q[3] ] : q \in Profile.requests }
  \cup
  { [ url |-> prefix(opts[i]) \o q[1], method |-> q[4], headers |-> q[5],
      remoteAddress |-> q[2], session |-> q[3] ] : q \in Profile.extra }
  \cup
  { [ url |-> q[1], method |-> "GET", headers |-> EmptyObject,
      remoteAddress |-> q[2], session |-> q[3] ] : q \in Profile.absolute }

Accept(i, request) ==
  /\ Quiet
  /\ Listening
  /\ i \in Instances
  /\ request \in ProfileRequests(i)
  /\ LET result == AcceptResult(i, request)
     IN  /\ result /= "none" => Cardinality(pending) < MaxPending
         /\ result = "rebuild" => rebuilds + RebuildsAhead < Profile.rebuilds
         /\ pending' = IF result = "none" THEN pending
                       ELSE pending \cup { Accepted(i, request) }
  /\ sessions' = SessionsAfterAccept(i, request)
  /\ UNCHANGED << env, opts, disk, diskChanges, defaultHeaders, cache, ready, runs,
                  nextGen, rebuilds, replies, installed, resp >>

\* the HTTP/2 session ends and the client opens another
NewSession(s) ==
  /\ Quiet
  /\ s \in Sessions
  /\ sessions[s] /= <<>>
  /\ sessions' = [ sessions EXCEPT ![s] = <<>> ]
  /\ UNCHANGED << env, opts, disk, diskChanges, defaultHeaders, cache, ready, runs,
                  nextGen, rebuilds, replies, pending, installed, resp >>

(***************************************************************************)
(* handle(accepted).                                                       *)
(***************************************************************************)
\* a handle that takes every method for GET
ToLowerCaseAsGet(method) == "get"

\* a handle that compares the method as it is
ToLowerCaseNot(method) == method

\* String.prototype.toLowerCase on a method name
ToLowerCase(method) ==
  CASE method = "GET" -> "get"
    [] method = "HEAD" -> "head"
    [] method = "DELETE" -> "delete"
    [] OTHER -> method

\* a handle that looks the path up again
ServedFromActive(t) ==
  IF uriPath(t.request.url) \in DOMAIN cache[t.inst].map
  THEN cache[t.inst].map[uriPath(t.request.url)]
  ELSE t.found[1]

\* the entry the response is made of
Served(t) == t.found[1]

\* const headers=Object.assign(defaultHeaders, found.headers): the target, and
\* so the object that is changed and returned, is the module-level object
AssignedHeaders(defaults, found) == ObjectAssign(defaults, found.headers)

\* an entry that Object.assign has written the default headers into
FoundAfterAssignMerged(defaults, found) ==
  [ found EXCEPT !.headers = ObjectAssign(found.headers, defaults) ]

\* found after Object.assign(defaultHeaders, found.headers) and the
\* assignments to the headers of the response: found.headers is the source
\* of the assign, which is read, and headers is defaultHeaders
FoundAfterAssign(defaults, found) == found

\* a Map in which the entry handle was given is the entry as handle leaves it
MapAfterHandle(m, old, new) ==
  [ m EXCEPT !.map = [ k \in DOMAIN @ |-> IF @[k] = old THEN new ELSE @[k] ] ]

\* a negotiation that is left out for HEAD
ChosenEncodingOfGet(found, request) ==
  IF (Has(found.data, sBr) \/ Has(found.data, sGzip)) /\ request.method /= "HEAD"
  THEN bestSupportedEncoding(request.headers)
  ELSE Encodings.identity

\* the representation of a 200 response
ChosenEncoding(found, request) ==
  IF Has(found.data, sBr) \/ Has(found.data, sGzip)
  THEN bestSupportedEncoding(request.headers)
  ELSE Encodings.identity

\* found.data[encoding] is undefined: reading its length throws a TypeError,
\* after headers['Content-Encoding'] was assigned and before writeHead
Throws(found, request) == ~Has(found.data, ChosenEncoding(found, request))

\* the headers object as writeHead(200, headers) is given it
OkHeaders(defaults, found, request) ==
  LET headers == AssignedHeaders(defaults, found)
      encoding == ChosenEncoding(found, request)
  IN  IF encoding /= Encodings.identity
      THEN ObjectAssign(headers, ("Content-Encoding" :> encoding) @@
                                 ("Content-Length" :> Len(found.data[encoding])))
      ELSE ObjectAssign(headers, ("Content-Length" :> Len(found.data[sIdentity])))

\* a handle that does not look at If-None-Match
IfNoneMatchIgnored(request) == <<>>

\* request.headers['if-none-match'] as the condition reads it: <<>> stands
\* for undefined and for the empty string, which are both falsy
IfNoneMatch(request) ==
  IF Has(request.headers, "if-none-match") THEN request.headers["if-none-match"] ELSE <<>>

\* [ status, headers written, body, defaultHeaders and found afterwards ]
\* of a resource match, defaultHeaders being `defaults` before; status 0
\* stands for a handle that threw before it wrote anything
Respond(defaults, found, request) ==
  LET method == ToLowerCase(request.method)
      headers == AssignedHeaders(defaults, found)
      etagHeader == IfNoneMatch(request)
  IN  IF method /= "head" /\ method /= "get"
      THEN [ status |-> 405, headers |-> EmptyObject, body |-> <<>>,
             defaults |-> defaults, found |-> found ]
      ELSE IF ~Has(found, "data")
      THEN [ status |-> 301, headers |-> headers, body |-> <<>>, defaults |-> headers,
             found |-> FoundAfterAssign(defaults, found) ]
      ELSE IF etagHeader /= <<>> /\ etagHeader = found.headers["ETag"]
      THEN [ status |-> 304, headers |-> headers, body |-> <<>>, defaults |-> headers,
             found |-> FoundAfterAssign(defaults, found) ]
      ELSE IF Throws(found, request)
      THEN [ status |-> 0, headers |-> EmptyObject, body |-> <<>>,
             defaults |-> ObjectAssign(headers, ("Content-Encoding" :>
                                                   ChosenEncoding(found, request))),
             found |-> FoundAfterAssign(defaults, found) ]
      ELSE [ status |-> 200,
             headers |-> OkHeaders(defaults, found, request),
             body |-> IF method /= "head"
                      THEN found.data[ChosenEncoding(found, request)] ELSE <<>>,
             defaults |-> OkHeaders(defaults, found, request),
             found |-> FoundAfterAssign(defaults, found) ]

\* handle of a resource match
HandleResource(t) ==
  /\ Quiet
  /\ t \in pending
  /\ t.found /= <<>>
  /\ LET r == Respond(defaultHeaders, Served(t), t.request)
     IN  /\ defaultHeaders' = r.defaults
         /\ cache' = [ i \in Instances |-> MapAfterHandle(cache[i], Served(t), r.found) ]
         /\ sessions' = [ s \in Sessions |->
                            IF sessions[s] = <<>> THEN <<>>
                            ELSE << MapAfterHandle(sessions[s][1], Served(t), r.found) >> ]
         /\ resp' = [ NoResp EXCEPT !.kind = "resource", !.inst = t.inst,
                                    !.status = r.status, !.headers = r.headers,
                                    !.body = r.body, !.request = t.request,
                                    !.found = <<Served(t)>>, !.gen = Served(t).gen,
                                    !.looked = t.looked, !.arrival = t.arrival,
                                    !.busy = t.busy,
                                    !.active = cache[t.inst].gen ]
  /\ pending' = pending \ {t}
  /\ UNCHANGED << env, opts, disk, diskChanges, ready, runs, nextGen, rebuilds,
                  replies, installed >>

\* handle of a rebuild match: sync() is called and handle returns
HandleRebuild(t) ==
  /\ Quiet
  /\ t \in pending
  /\ t.found = <<>>
  /\ rebuilds < Profile.rebuilds
  /\ runs' = (nextGen :> NewRun(t.inst, nextGen, <<t.request>>, disk)) @@ runs
  /\ nextGen' = nextGen + 1
  /\ rebuilds' = rebuilds + 1
  /\ pending' = pending \ {t}
  /\ UNCHANGED << env, opts, disk, diskChanges, defaultHeaders, cache, ready, replies,
                  sessions, installed, resp >>

\* the response of the last step is on its way to the client
Sent ==
  /\ resp /= NoResp
  /\ resp' = NoResp
  /\ UNCHANGED << env, opts, disk, diskChanges, defaultHeaders, cache, ready, runs,
                  nextGen, rebuilds, replies, sessions, pending, installed >>

(***************************************************************************)
(* The specification.                                                      *)
(***************************************************************************)
Next ==
  \/ \E g \in DOMAIN runs : \E dir \in runs[g].dirs : WalkDir(g, dir)
  \/ \E g \in DOMAIN runs : \E it \in runs[g].todo : CompileFile(g, it)
  \/ \E g \in DOMAIN runs : SyncPublish(g)
  \/ \E g \in DOMAIN runs : SyncFail(g)
  \/ DiskChange
  \/ \E i \in Instances : \E request \in ProfileRequests(i) : Accept(i, request)
  \/ \E s \in Sessions : NewSession(s)
  \/ \E t \in pending : HandleResource(t)
  \/ \E t \in pending : HandleRebuild(t)
  \/ Sent

\* rebuilds and requests interleaved, one default handler
Spec == Init /\ [][Next]_vars

\* the set-ups and trees of the model, one rebuild
SpecContent == InitContent /\ [][Next]_vars

\* one default handler, requests with methods, conditions and encodings
SpecNegotiate == InitNegotiate /\ [][Next]_vars

\* two handlers behind one dispatcher, or one handler with a caller's types
SpecChain == InitChain /\ [][Next]_vars

\* one handler with the prefix of the README's example, written with and
\* without a leading slash, or with a caller's Cache-Control
SpecOptions == InitOptions /\ [][Next]_vars

\* one handler whose compressions may fail
SpecFaults == InitFaults /\ [][Next]_vars

\* a tree in which two nodes have one public path
SpecKeys == InitKeys /\ [][Next]_vars

\* a filesystem call of the run can only fail: the node it reads is gone
Stuck(run) ==
  \/ run.phase = "walk" /\ \E dir \in run.dirs : ~CanReaddir(Trees[disk], dir)
  \/ \E it \in run.todo : ~CanReadFile(Trees[disk], it.path)

\* a callback of the filesystem or of zlib fires: with its result, or with
\* an error when the node it reads is gone
Fires ==
  \/ \E g \in DOMAIN runs : \E dir \in runs[g].dirs : WalkDir(g, dir)
  \/ \E g \in DOMAIN runs : \E it \in runs[g].todo : CompileFile(g, it)
  \/ \E g \in DOMAIN runs : SyncPublish(g)
  \/ \E g \in DOMAIN runs : Stuck(runs[g]) /\ SyncFail(g)

\* ENABLED <<Fires>>_vars, from the guards of these actions
CanFire ==
  /\ Quiet
  /\ \E g \in DOMAIN runs :
       \/ /\ runs[g].phase = "walk"
          /\ \E dir \in runs[g].dirs :
               /\ CanReaddir(Trees[disk], dir)
               /\ WalkStep(runs[g], Trees[disk], dir) /= runs[g]
       \/ /\ runs[g].phase = "compile"
          /\ \E it \in runs[g].todo : CanReadFile(Trees[disk], it.path)
       \/ CanPublish(runs[g])
       \/ Stuck(runs[g]) /\ FsOutstanding(runs[g])

\* the behaviours of SpecKeys in which the callbacks of the sync() calls
\* fire (strong fairness of Fires: a response on its way does not keep
\* the event loop from running them) and what is written reaches the client
SpecLive ==
  /\ InitKeys /\ [][Next]_vars
  /\ (<>[]~CanFire) \/ ([]<><<Fires>>_vars)
  /\ WF_vars(Sent)

(***************************************************************************)
(* Snapshot replacement (Spec).                                            *)
(***************************************************************************)
\* the Map is the whole output of one finished sync() call
WholeSnapshot(m) ==
  /\ m.gen /= 0
  /\ m.unfinished = {}
  /\ \A k \in DOMAIN m.map : m.map[k].gen = m.gen

\* a Map accept can look into: the active one of a handler that exists, or
\* one a session holds
LookedInto ==
  { cache[i] : i \in { j \in Instances : ready[j] = "ready" } }
    \cup { sessions[s][1] : s \in { u \in Sessions : sessions[u] /= <<>> } }

\* C1: whatever the interleaving of sync() calls and requests, every Map a
\* request can be looked up in is the whole output of one finished sync()
\* call (no file candidate of the call is without its entry, every entry
\* was set by that call), and the entry of an accepted request comes from
\* the Map that was looked into.
C1_SnapshotIsOneFinishedBuild ==
  /\ \A m \in LookedInto : WholeSnapshot(m)
  /\ \A t \in pending : t.found /= <<>> => t.found[1].gen = t.looked

\* a triggered rebuild has been published, another one has set some of its
\* entries and still waits for a file, and a request is between accept and
\* handle
C1_Witness ==
  /\ \E i \in Instances : cache[i].gen > 1 /\ DOMAIN cache[i].map /= {}
  /\ \E g \in DOMAIN runs :
       /\ runs[g].trigger /= <<>>
       /\ runs[g].todo /= {}
       /\ \E k \in DOMAIN runs[g].updated : Has(runs[g].updated[k], "data")
  /\ \E t \in pending : t.found /= <<>>

\* a step in which a sync() call fails
FailureStep ==
  \/ resp.kind = "" /\ resp'.kind = "sync" /\ resp'.status = 500
  \/ \E i \in Instances : ready[i] = "building" /\ ready'[i] = "failed"

\* C2: a sync() call in which a filesystem operation fails publishes
\* nothing: the step in which it fails leaves the active Map of every
\* instance as it was.
C2_FailurePublishesNothing == [][FailureStep => cache' = cache]_vars

\* a triggered rebuild has failed with a published snapshot in service
C2_Witness ==
  /\ resp.kind = "sync"
  /\ resp.status = 500
  /\ cache[resp.inst].gen /= 0
  /\ DOMAIN cache[resp.inst].map /= {}

\* The statement of C3 as the specification has it: a request that arrives
\* while a rebuild is in progress is answered from the snapshot that was the
\* active one when it arrived.
C3_Original ==
  resp.kind = "resource" /\ resp.busy => resp.gen = resp.arrival

\* C3: a request that arrives while a rebuild is in progress is answered
\* with the entry accept took from the Map it looked into, whatever becomes
\* of the active Map before handle runs; that Map is never one under
\* construction, and it is the Map active on arrival when the request has
\* no HTTP/2 session (a request on a session is looked up in the Map that
\* was attached to the session by its first request).
C3_AnsweredFromLookedUpSnapshot ==
  /\ resp.kind = "resource" /\ resp.busy =>
       /\ resp.gen = resp.looked
       /\ ~HasSession(resp.request) => resp.looked = resp.arrival
  /\ \A t \in pending : t.found /= <<>> =>
       /\ t.found[1].gen = t.looked
       /\ \A g \in DOMAIN runs : runs[g].gen /= t.looked

\* a request accepted while a rebuild was in progress is answered after the
\* active Map has been replaced
C3_Witness ==
  /\ resp.kind = "resource"
  /\ resp.busy
  /\ resp.status = 200
  /\ resp.active /= resp.arrival
  /\ resp.gen = resp.arrival

\* The statement of C4 as the specification has it: every request is looked
\* up in the snapshot of the rebuild that completed last before it arrived,
\* requests on an HTTP/2 session included.
C4_Original ==
  \A t \in pending : t.looked = t.arrival

\* C4: the active Map is the one of the sync() call that returned last, and
\* a request without HTTP/2 session is looked up in the Map that is the
\* active one when it arrives; a request on a session is looked up in the
\* Map attached to the session, which can be an older one.
C4_LookedUpInInstalledSnapshot ==
  /\ \A i \in Instances : ready[i] = "ready" => cache[i].gen = installed[i]
  /\ \A t \in pending : ~HasSession(t.request) => t.looked = t.arrival

\* a request without session has been looked up in the Map of a triggered
\* rebuild while a session holds an older Map
C4_Witness ==
  /\ \E t \in pending :
       /\ ~HasSession(t.request)
       /\ t.found /= <<>>
       /\ t.looked = installed[t.inst]
       /\ t.looked > 1
       /\ \E s \in Sessions : sessions[s] /= <<>> /\ sessions[s][1].gen /= t.looked

\* sync() calls made by handle that have not returned
TriggeredRuns == { g \in DOMAIN runs : runs[g].trigger /= <<>> }

\* C5: every rebuild that handle started is in progress or has been replied
\* to once; the reply is 200 without headers or body, written when the Map
\* of that very sync() call is the active one, or 500 with Content-Type
\* text/plain and the failure message as its body, the active Map being
\* another one.
C5_RebuildRepliedOnce ==
  /\ rebuilds = replies + Cardinality(TriggeredRuns)
  /\ resp.kind = "sync" =>
       \/ /\ resp.status = 200
          /\ resp.headers = EmptyObject
          /\ resp.body = <<>>
          /\ resp.active = resp.gen
          /\ cache[resp.inst].gen = resp.gen
       \/ /\ resp.status = 500
          /\ DOMAIN resp.headers = { "Content-Type" }
          /\ resp.headers["Content-Type"] = sTextPlain
          /\ resp.body = <<"err.message">>
          /\ resp.active /= resp.gen

\* both replies have been written in one behaviour: a rebuild has failed
\* after another had succeeded
C5_Witness ==
  /\ resp.kind = "sync"
  /\ resp.status = 500
  /\ replies = 2
  /\ cache[resp.inst].gen > 1

(***************************************************************************)
(* The rebuild trigger and the content of a snapshot (SpecContent).        *)
(***************************************************************************)
Loopback == { <<"127.0.0.1">>, <<"::1">> }

\* the prefix P of an instance: the configured one without a trailing slash
ConfiguredPrefix(options) ==
  LET p == optionsPrefix(options)
  IN  IF p /= <<>> /\ p[Len(p)] = "/" THEN SubSeq(p, 1, Len(p) - 1) ELSE p

\* the instances whose handler exists
Handlers == { i \in Instances : ready[i] = "ready" }

\* requests for a sync path: under every prefix, from every address, with
\* and without a query or a doubled slash
SyncPathRequests ==
  { r \in Requests :
      \E p \in Prefixes : r.url \in { p \o <<"/","s","y","n","c">>, p \o <<"/","s","y","n","c","?","x">>, p \o <<"/","/","s","y","n","c">> } }

\* the request is for instance i's own trigger and comes from the loopback
OwnTrigger(i, r) ==
  r.remoteAddress \in Loopback /\ r.url = ConfiguredPrefix(opts[i]) \o <<"/","s","y","n","c">>

\* the Map the request is looked up in has an entry at its path
Hit(i, r) == uriPath(r.url) \in DOMAIN sessionCache(i, r).map

\* The statement of C6 as the specification has it: a rebuild match only
\* for the instance's own trigger from the loopback, and no match for a
\* sync path from any other address or under any other prefix.
C6_Original ==
  \A i \in Handlers : \A r \in SyncPathRequests :
    IF OwnTrigger(i, r)
    THEN TRUE
    ELSE AcceptResult(i, r) = "none"

\* C6: accept returns a rebuild match only when the caller address is
\* 127.0.0.1 or ::1 and the url is the instance's own <prefix>/sync; a sync
\* path from another address or under another prefix is never a rebuild
\* match: it is no match, unless the Map it is looked up in has an entry at
\* that path, which is then matched as a resource.  So every rebuild that is
\* waiting, running or replied to was asked for from the loopback.
C6_RebuildOnlyFromLoopback ==
  /\ \A i \in Handlers : \A r \in SyncPathRequests :
       IF OwnTrigger(i, r)
       THEN TRUE
       ELSE AcceptResult(i, r) = (IF Hit(i, r) THEN "resource" ELSE "none")
  /\ \A t \in pending : t.found = <<>> => OwnTrigger(t.inst, t.request)
  /\ \A g \in TriggeredRuns : OwnTrigger(runs[g].inst, runs[g].trigger[1])
  /\ resp.kind = "sync" => OwnTrigger(resp.inst, resp.request)

\* a sync path asked for from another address has been answered as the
\* resource it is in the snapshot, by a handler that was rebuilt before
C6_Witness ==
  /\ resp.kind = "resource"
  /\ resp.request.url = ConfiguredPrefix(opts[resp.inst]) \o <<"/","s","y","n","c">>
  /\ resp.request.remoteAddress \notin Loopback
  /\ rebuilds > 0

\* a GET for the instance's P/sync from a loopback address
TriggerRequests(i) ==
  { r \in Requests :
      /\ r.url = ConfiguredPrefix(opts[i]) \o <<"/","s","y","n","c">>
      /\ r.remoteAddress \in Loopback
      /\ r.method = "GET" }

\* The statement of C7 as the specification has it: P/sync from a loopback
\* address is a rebuild match and is replied to with 200, whatever the tree.
C7_Original ==
  /\ \A i \in Handlers : \A r \in TriggerRequests(i) : AcceptResult(i, r) = "rebuild"
  /\ resp.kind = "sync" => resp.status = 200

\* C7: for an instance with prefix P (the configured prefix without a
\* trailing slash), a GET for P/sync from a loopback address is a rebuild
\* match exactly when the Map it is looked up in has no entry at P/sync (the
\* root has no directory of that name); the rebuild is replied to with 200
\* when its Map has become the active one and with 500 when it failed.
C7_SyncFromLoopback ==
  /\ \A i \in Handlers : \A r \in TriggerRequests(i) :
       AcceptResult(i, r) = (IF Hit(i, r) THEN "resource" ELSE "rebuild")
  /\ resp.kind = "sync" =>
       /\ resp.request \in TriggerRequests(resp.inst)
       /\ resp.status = (IF resp.active = resp.gen THEN 200 ELSE 500)

\* the instance configured with a trailing slash has replied 200 to its P/sync
C7_Witness ==
  /\ resp.kind = "sync"
  /\ resp.status = 200
  /\ optionsPrefix(opts[resp.inst]) /= ConfiguredPrefix(opts[resp.inst])
  /\ resp.request.url = <<"/","o","/","s","y","n","c">>

\* the path of a node of the tree relative to the root ('' for the root)
Relative(options, p) == SubSeq(p, Len(root(options)) + 1, Len(p))

\* the names a relative path is made of (the first one is empty)
NamesOf(rel) == Split(rel, "/")

\* a name of the path starts with '.'
HiddenPath(rel) ==
  \E n \in 1..Len(NamesOf(rel)) : NamesOf(rel)[n] /= <<>> /\ NamesOf(rel)[n][1] = "."

\* what follows the last '.' of the last name, '' when it has none
ExtensionOf(rel) ==
  LET name == NamesOf(rel)[Len(NamesOf(rel))]
      dot == LastIndexOf(name, <<".">>)
  IN  IF dot = -1 THEN <<>> ELSE SubSeq(name, dot + 2, Len(name))

\* the tree a snapshot was built from
TreeOf(m) == Trees[m.src]

\* the instances whose active Map was built from a tree that stayed as it
\* was during the build
Settled == { i \in Handlers : cache[i].clean }

FilesOf(tree) == { p \in DOMAIN tree : ~tree[p].directory }

DirectoriesOf(tree) == { p \in DOMAIN tree : tree[p].directory }

\* the files of the tree that are not hidden and whose extension is a key
\* of instance i's type table
RecognizedFiles(i, tree) ==
  { p \in FilesOf(tree) :
      /\ ~HiddenPath(Relative(opts[i], p))
      /\ ExtensionOf(Relative(opts[i], p)) \in DOMAIN types(opts[i]) }

TypeOfFile(i, p) == types(opts[i])[ExtensionOf(Relative(opts[i], p))]

Get(url) ==
  [ url |-> url, method |-> "GET", headers |-> EmptyObject,
    remoteAddress |-> <<"10.0.0.1">>, session |-> 0 ]

NoMatch == [ status |-> 0, headers |-> EmptyObject, body |-> <<>> ]

\* what a GET of url without headers or session is answered by instance i:
\* NoMatch when accept returns null
Answer(i, url) ==
  IF AcceptResult(i, Get(url)) = "resource"
  THEN Respond(defaultHeaders, cache[i].map[uriPath(url)], Get(url))
  ELSE NoMatch

\* the response has the headers of the descriptor
WithHeaders(a, headers) ==
  \A h \in DOMAIN headers : Has(a.headers, h) /\ a.headers[h] = headers[h]

PublicPath(i, p) ==
  LET path == ConfiguredPrefix(opts[i]) \o Relative(opts[i], p)
      n == Len(path)
  IN  IF n >= 10 /\ SubSeq(path, n - 9, n - 5) = <<"i","n","d","e","x">> /\ SubSeq(path, n - 3, n) = <<"h","t","m","l">>
      THEN SubSeq(path, 1, n - 10)
      ELSE path

\* the headers of the descriptor as they are served: the first 'public' of
\* Cache-Control is 'private' when shared caches are disallowed
ServedTypeHeaders(i, headers) ==
  [ h \in DOMAIN headers |->
      IF h = "Cache-Control" /\ disallowSharedCache(opts[i])
      THEN ReplaceFirst(headers[h], sPublic, sPrivate)
      ELSE headers[h] ]

SeenNodes(i) == UNION { DOMAIN Trees[n] : n \in Profile.trees }

\* the nodes that are hidden, below a hidden directory, or files with an
\* extension that is no key of the type table
Excluded(i) ==
  { p \in SeenNodes(i) :
      \/ HiddenPath(Relative(opts[i], p))
      \/ /\ \E n \in Profile.trees : p \in FilesOf(Trees[n])
         /\ ExtensionOf(Relative(opts[i], p)) \notin DOMAIN types(opts[i]) }

\* C9: no key of a published snapshot is the public path of a node that is
\* hidden, below a hidden directory, or a file whose extension is no key of
\* the type table, and accept returns no match for these paths.
C9_NoHiddenOrUnrecognized ==
  \A i \in Handlers : \A p \in Excluded(i) :
    /\ PublicPath(i, p) \notin DOMAIN cache[i].map
    /\ AcceptResult(i, Get(PublicPath(i, p))) = "none"

\* The same without the files whose extension is the name of a property
\* that every object inherits.
C9_ButInherited ==
  \A i \in Handlers : \A p \in Excluded(i) :
    ExtensionOf(Relative(opts[i], p)) \notin ObjectPrototypeNames =>
      /\ PublicPath(i, p) \notin DOMAIN cache[i].map
      /\ AcceptResult(i, Get(PublicPath(i, p))) = "none"

\* hidden and unrecognized files are on disk and not in the snapshot built
\* from them
C9_Witness ==
  \E i \in Settled :
    /\ cache[i].src = 2
    /\ W(<<"/","f",".","x","y","z">>) \in Excluded(i)
    /\ W(<<"/",".","s","/","a",".","j","s">>) \in Excluded(i)
    /\ <<"/","a",".","j","s">> \in DOMAIN cache[i].map
    /\ rebuilds > 0

\* the directories of the tree, the root apart, that are on no hidden path
\* and hold a file index.html
IndexedDirectories(i, tree) ==
  { d \in DirectoriesOf(tree) :
      /\ d /= root(opts[i])
      /\ ~HiddenPath(Relative(opts[i], d))
      /\ (d \o <<"/","i","n","d","e","x",".","h","t","m","l">>) \in FilesOf(tree) }

\* the public path of a directory, without trailing slash
DirectoryPath(i, d) == ConfiguredPrefix(opts[i]) \o Relative(opts[i], d)

\* the path without trailing slash is answered 301 to the path with it, and
\* the path ending in /index.html is no key
RedirectsToSlash(i, d) ==
  LET a == Answer(i, DirectoryPath(i, d))
  IN  /\ a.status = 301
      /\ Has(a.headers, "Location")
      /\ a.headers["Location"] = DirectoryPath(i, d) \o <<"/">>
      /\ a.body = <<>>
      /\ (DirectoryPath(i, d) \o <<"/","i","n","d","e","x",".","h","t","m","l">>) \notin DOMAIN cache[i].map
      /\ Answer(i, DirectoryPath(i, d) \o <<"/","i","n","d","e","x",".","h","t","m","l">>) = NoMatch

\* the path with trailing slash is answered 200 with the content of index.html
ServesIndex(i, d, tree) ==
  LET a == Answer(i, DirectoryPath(i, d) \o <<"/">>)
  IN  /\ a.status = 200
      /\ a.body = tree[d \o <<"/","i","n","d","e","x",".","h","t","m","l">>].bytes

\* The statement of C10 as the specification has it.
C10_Original ==
  \A i \in Settled : \A d \in IndexedDirectories(i, TreeOf(cache[i])) :
    RedirectsToSlash(i, d) /\ ServesIndex(i, d, TreeOf(cache[i]))

\* C10: when the tree stays as it is during a rebuild that succeeds, then
\* for every directory D below the root, on no hidden path, that holds an
\* index.html: the path of D without trailing slash is answered 301 with
\* Location that path plus '/', and the path ending in /index.html is no key
\* of the snapshot; the path with trailing slash is answered 200 with the
\* content of index.html if html is a key of the instance's type table, and
\* is no match if it is not.
C10_DirectoryWithIndex ==
  \A i \in Settled : \A d \in IndexedDirectories(i, TreeOf(cache[i])) :
    /\ RedirectsToSlash(i, d)
    /\ IF sHtml \in DOMAIN types(opts[i])
       THEN ServesIndex(i, d, TreeOf(cache[i]))
       ELSE Answer(i, DirectoryPath(i, d) \o <<"/">>) = NoMatch

\* the directory was asked for without trailing slash and answered 301,
\* while the snapshot holds the index at the path with it
C10_Witness ==
  /\ resp.kind = "resource"
  /\ resp.status = 301
  /\ resp.request.url = <<"/","o","/","d">>
  /\ resp.headers["Location"] = <<"/","o","/","d","/">>
  /\ resp.inst \in Settled
  /\ Answer(resp.inst, <<"/","o","/","d","/">>).status = 200
  /\ Answer(resp.inst, <<"/","o","/","d","/">>).body = TreeA[W(<<"/","d","/","i","n","d","e","x",".","h","t","m","l">>)].bytes

(***************************************************************************)
(* Paths, methods and conditional requests (SpecNegotiate).                *)
(***************************************************************************)
\* the length of the longest request target that uriPath is applied to
MaxUrlLen == 4

UrlAlphabet == { "/", "a", "?", "#" }

\* every string over the alphabet up to that length
UrlStrings == UNION { [ 1..n -> UrlAlphabet ] : n \in 0..MaxUrlLen }

\* the places of a string that hold '?' or '#'
Marks(u) == { k \in 1..Len(u) : u[k] = "?" \/ u[k] = "#" }

\* the string up to its first '?' or '#'
Truncated(u) == IF Marks(u) = {} THEN u ELSE SubSeq(u, 1, SetMin(Marks(u)) - 1)

\* what may follow a path in a request target
Suffixes == { <<>>, <<"?">>, <<"?","v">>, <<"#","f">>, <<"?","v","#","f">>, <<"#","f","?","v">>, <<"?","v","?","w">>, <<"#","#">> }

Req(url, method, headers) ==
  [ url |-> url, method |-> method, headers |-> headers,
    remoteAddress |-> <<"10.0.0.1">>, session |-> 0 ]

OnSession(r, s) == [ r EXCEPT !.session = s ]

\* C11: the path accept looks up is the request url cut at its first '?' or
\* '#', whichever comes first, and the whole url when it has neither; a
\* url with a query and/or a fragment is therefore matched to the entry of
\* the bare path, or to none when the bare path has none.
C11_PathIsUrlTruncated ==
  /\ \A u \in UrlStrings : uriPath(u) = Truncated(u)
  /\ \A i \in Handlers : \A k \in DOMAIN cache[i].map : \A x \in Suffixes :
       \A s \in {0} \cup Sessions :
         LET bare == OnSession(Req(k, "GET", EmptyObject), s)
             long == OnSession(Req(k \o x, "GET", EmptyObject), s)
         IN  /\ Accepted(i, long).found = Accepted(i, bare).found
             /\ Accepted(i, long).found = MapGet(sessionCache(i, long).map, k)
  /\ resp.kind = "resource" =>
       uriPath(resp.request.url) = Truncated(resp.request.url)

\* a target with a query and a fragment was answered with the entry of its
\* bare path
C11_Witness ==
  /\ resp.kind = "resource"
  /\ resp.request.url = <<"/","a",".","j","s","?","v","#","f">>
  /\ resp.status = 200
  /\ <<"/","a",".","j","s">> \in DOMAIN cache[resp.inst].map
  /\ resp.found = <<cache[resp.inst].map[<<"/","a",".","j","s">>]>>

\* a step in which handle answers a resource match
Answered == resp = NoResp /\ resp'.kind = "resource"

\* C12: for a resource match, content or redirect entry, a request whose
\* method is neither GET nor HEAD is answered 405 without headers or body
\* and nothing else changes; a 200, 301 or 304 is only ever the answer to a
\* GET or a HEAD.
C12_OtherMethodsAnswered405 ==
  [][ /\ \A i \in Handlers : \A k \in DOMAIN cache[i].map :
           LET a == Respond(defaultHeaders, cache[i].map[k], Req(k, "DELETE", EmptyObject))
           IN  a.status = 405 /\ a.body = <<>> /\ a.headers = EmptyObject
      /\ Answered =>
           /\ resp'.status \in { 200, 301, 304, 405 }
           /\ resp'.request.method \notin { "GET", "HEAD" } =>
                /\ resp'.status = 405
                /\ resp'.body = <<>>
                /\ resp'.headers = EmptyObject
                /\ defaultHeaders' = defaultHeaders
                /\ cache' = cache
                /\ runs' = runs
                /\ sessions' = sessions
           /\ resp'.status \in { 200, 301, 304 } =>
                resp'.request.method \in { "GET", "HEAD" } ]_vars

\* a DELETE of a file of the snapshot was answered 405
C12_Witness ==
  /\ resp.kind = "resource"
  /\ resp.request.method = "DELETE"
  /\ resp.status = 405
  /\ Has(resp.found[1], "data")

\* the keys of the content entries of a Map
ContentKeys(map) == { k \in DOMAIN map : Has(map[k], "data") }

\* values of If-None-Match for an entry whose validator is v: none, the
\* validator, another validator, lists, the wildcard, a weak and a quoted
\* form
IfNoneMatchValues(v) ==
  { <<>>, v, v \o <<"x">>, <<"+","C","-","9">>, v \o <<","," ","+","C","-","9">>, <<"+","C","-","9",","," ">> \o v, <<"*">>, <<"W","/">> \o v,
    <<"\"">> \o v \o <<"\"">> }

ConditionalHeaders(inm, ae) ==
  (IF inm = <<>> THEN EmptyObject ELSE IfNoneMatchHeader(inm)) @@
  (IF ae = <<>> THEN EmptyObject ELSE AcceptEncoding(ae))

\* what C13 says of the answer a to the request for the entry found
ConditionalAnswer(a, found, request) ==
  IF Has(request.headers, "if-none-match")
       /\ request.headers["if-none-match"] = found.headers["ETag"]
  THEN /\ a.status = 304
       /\ a.body = <<>>
       /\ Has(a.headers, "ETag")
       /\ a.headers["ETag"] = found.headers["ETag"]
  ELSE /\ a.status = 200
       /\ a.body = (IF request.method = "GET"
                    THEN found.data[ChosenEncoding(found, request)] ELSE <<>>)
       /\ a.headers["Content-Length"] = Len(found.data[ChosenEncoding(found, request)])
       /\ Has(a.headers, "ETag")
       /\ a.headers["ETag"] = found.headers["ETag"]

\* C13: a GET or HEAD on a content entry whose If-None-Match is exactly the
\* entry's validator is answered 304 with an empty body and the validator
\* among the headers; with any other value (another validator, a list, the
\* wildcard, a weak or quoted form) or without If-None-Match it is answered
\* 200 with the negotiated representation (its length for a HEAD, which has
\* no body).
C13_ConditionalRequest ==
  /\ \A i \in Handlers : \A k \in ContentKeys(cache[i].map) :
       \A method \in { "GET", "HEAD" } : \A ae \in { <<>>, <<"g","z","i","p">>, <<"b","r">> } :
         \A inm \in IfNoneMatchValues(cache[i].map[k].headers["ETag"]) :
           LET found == cache[i].map[k]
               request == Req(k, method, ConditionalHeaders(inm, ae))
           IN  ConditionalAnswer(Respond(defaultHeaders, found, request), found, request)
  /\ ( /\ resp.kind = "resource"
       /\ Has(resp.found[1], "data")
       /\ resp.request.method \in { "GET", "HEAD" } )
     => ConditionalAnswer(resp, resp.found[1], resp.request)

\* a request with the entry's validator was answered 304
C13_Witness ==
  /\ resp.kind = "resource"
  /\ resp.status = 304
  /\ resp.body = <<>>
  /\ Has(resp.request.headers, "if-none-match")
  /\ resp.headers["ETag"] = resp.request.headers["if-none-match"]

(***************************************************************************)
(* Content negotiation (SpecNegotiate).                                    *)
(***************************************************************************)
\* values of Accept-Encoding; <<>> stands for a request without the header
AcceptEncodingValues ==
  { <<>>, <<" ">>, <<"*">>, <<" ","*">>, <<"*"," ">>, <<"*",";","q","=","1">>, <<"b","r">>, <<"g","z","i","p">>, <<"i","d","e","n","t","i","t","y">>, <<"d","e","f","l","a","t","e">>,
    <<"g","z","i","p",","," ","b","r">>, <<"b","r",",","g","z","i","p">>, <<"g","z","i","p",";","q","=","1",","," ","d","e","f","l","a","t","e">>, <<"d","e","f","l","a","t","e",","," ","g","z","i","p"," ",";","q","=","0",".","5">>, <<"b","r",";","q","=","0">>,
    <<"B","R">>, <<"x","-","g","z","i","p">>, <<"g","z","i","p",",">>, <<"b","r","o","t","l","i",","," ","g","z","i","p","p","e","d">> }

\* the token is one of the members of the comma-separated list, parameters
\* and surrounding blanks apart
Listed(value, token) ==
  \E n \in 1..Len(Split(value, ",")) : Trim(StripParameters(Split(value, ",")[n])) = token

\* the representation C14 names for a value of Accept-Encoding, as the
\* specification has it
ClaimedEncoding(value) ==
  IF value = <<>> THEN sIdentity
  ELSE IF value = <<"*">> THEN sBr
  ELSE IF Listed(value, sBr) THEN sBr
  ELSE IF Listed(value, sGzip) THEN sGzip
  ELSE sIdentity

\* the same with the value trimmed before it is looked at
TrimmedEncoding(value) == ClaimedEncoding(Trim(value))

\* the entry has compressed representations
Compressed(found) ==
  Has(found, "data") /\ Has(found.data, sGzip) /\ Has(found.data, sBr)

CompressedKeys(map) == { k \in DOMAIN map : Compressed(map[k]) }

\* the answer to a request for the entry is a 200 in the given encoding
NegotiatedAs(a, found, method, encoding) ==
  /\ a.status = 200
  /\ a.body = (IF method = "GET" THEN found.data[encoding] ELSE <<>>)
  /\ a.headers["Content-Length"] = Len(found.data[encoding])

\* The statement of C14 as the specification has it.
C14_Original ==
  \A i \in Handlers : \A k \in CompressedKeys(cache[i].map) :
    \A method \in { "GET", "HEAD" } : \A ae \in AcceptEncodingValues :
      LET found == cache[i].map[k]
          request == Req(k, method, ConditionalHeaders(<<>>, ae))
      IN  NegotiatedAs(Respond(defaultHeaders, found, request), found, method,
                       ClaimedEncoding(ae))

\* C14: for an entry with both compressed representations, the
\* representation of a 200 response is identity when Accept-Encoding is
\* absent or blank, brotli when the value without the blanks around it is
\* '*', and otherwise brotli if the comma-separated list, parameters and
\* blanks stripped, has 'br', else gzip if it has 'gzip', else identity;
\* Content-Length is the length of that representation, which is the body
\* of a GET.
C14_Negotiation ==
  /\ \A i \in Handlers : \A k \in CompressedKeys(cache[i].map) :
       \A method \in { "GET", "HEAD" } : \A ae \in AcceptEncodingValues :
         LET found == cache[i].map[k]
             request == Req(k, method, ConditionalHeaders(<<>>, ae))
         IN  NegotiatedAs(Respond(defaultHeaders, found, request), found, method,
                          TrimmedEncoding(ae))
  /\ ( /\ resp.kind = "resource"
       /\ resp.status = 200
       /\ Compressed(resp.found[1]) )
     => NegotiatedAs(resp, resp.found[1], resp.request.method,
                     TrimmedEncoding(IF Has(resp.request.headers, "accept-encoding")
                                     THEN resp.request.headers["accept-encoding"] ELSE <<>>))

\* a request that lists gzip before br was answered with the brotli bytes
C14_Witness ==
  /\ resp.kind = "resource"
  /\ resp.status = 200
  /\ resp.request.headers = AcceptEncoding(<<"g","z","i","p",","," ","b","r">>)
  /\ resp.body = resp.found[1].data[sBr]
  /\ resp.headers["Content-Length"] = Len(resp.found[1].data[sBr])
  /\ resp.headers["Content-Encoding"] = sBr

\* C15: in every 200 response, whatever was answered before, there is a
\* Content-Encoding header only when the representation chosen for this
\* request is not identity, and the body of a GET is the representation
\* the header names, the identity bytes when there is none.
C15_EncodingHeaderMatchesBody ==
  (resp.kind = "resource" /\ resp.status = 200) =>
    LET found == resp.found[1]
        chosen == ChosenEncoding(found, resp.request)
    IN  /\ Has(resp.headers, "Content-Encoding") <=> chosen /= sIdentity
        /\ Has(resp.headers, "Content-Encoding") =>
             resp.headers["Content-Encoding"] = chosen
        /\ resp.request.method = "GET" => resp.body = found.data[chosen]

\* a GET without Accept-Encoding was answered with the identity bytes and
\* a Content-Encoding header
C15_Witness ==
  /\ resp.kind = "resource"
  /\ resp.status = 200
  /\ resp.request.method = "GET"
  /\ resp.request.headers = EmptyObject
  /\ resp.body = resp.found[1].data[sIdentity]
  /\ Has(resp.headers, "Content-Encoding")
  /\ resp.headers["Content-Encoding"] = sBr

\* the entry has the identity representation only
IdentityOnly(found) == Has(found, "data") /\ DOMAIN found.data = { sIdentity }

\* C16: a response for an entry that has the identity representation only
\* never has a Content-Encoding header, whatever Accept-Encoding the
\* request has and whatever was answered before.
C16_NoEncodingForIdentityOnly ==
  (resp.kind = "resource" /\ IdentityOnly(resp.found[1])) =>
    ~Has(resp.headers, "Content-Encoding")

\* an image was answered with its own bytes and the Content-Encoding of an
\* earlier response
C16_Witness ==
  /\ resp.kind = "resource"
  /\ resp.status = 200
  /\ resp.request.url = <<"/","p",".","j","p","g">>
  /\ IdentityOnly(resp.found[1])
  /\ resp.body = resp.found[1].data[sIdentity]
  /\ Has(resp.headers, "Content-Encoding")

(***************************************************************************)
(* Several handlers in one process, and validators (SpecChain).            *)
(***************************************************************************)
\* the value has 'public' in it
HasPublic(value) == IndexOf(value, sPublic) /= -1

\* C17: with disallowSharedCache set on an instance, no response of that
\* instance, 200, 301 or 304, has a Cache-Control with 'public' in it.
C17_NoPublicWhenDisallowed ==
  ( /\ resp.kind = "resource"
    /\ disallowSharedCache(opts[resp.inst])
    /\ resp.status \in { 200, 301, 304 }
    /\ Has(resp.headers, "Cache-Control") )
  => ~HasPublic(resp.headers["Cache-Control"])

\* the content entries of the instances that disallow shared caches have
\* 'private' where the descriptor has 'public'
C17_ButEntries ==
  \A i \in Handlers : \A k \in ContentKeys(cache[i].map) :
    ( disallowSharedCache(opts[i]) /\ Has(cache[i].map[k].headers, "Cache-Control") )
    => ~HasPublic(cache[i].map[k].headers["Cache-Control"])

\* the instance that disallows shared caches answered a redirect with the
\* Cache-Control of a file of the other instance
C17_Witness ==
  /\ resp.kind = "resource"
  /\ disallowSharedCache(opts[resp.inst])
  /\ resp.status = 301
  /\ resp.request.url = <<"/","o","/","d">>
  /\ Has(resp.headers, "Cache-Control")
  /\ resp.headers["Cache-Control"] = sPublicNoCache

\* what instance i answers to a GET of each key of its snapshot
Answers(i) == [ k \in DOMAIN cache[i].map |-> Answer(i, k) ]

\* C18: the instances share no state: what an instance answers to a request
\* (match, status, headers, body) is not changed by a request that another
\* instance answers.
C18_InstancesShareNoState ==
  [][ \A i \in Handlers :
        (Answered /\ resp'.inst /= i) => Answers(i)' = Answers(i) ]_vars

\* the second instance answered a redirect with the validator of a file of
\* the first
C18_Witness ==
  /\ resp.kind = "resource"
  /\ resp.inst = 2
  /\ resp.status = 301
  /\ Has(resp.headers, "ETag")
  /\ \E k \in ContentKeys(cache[1].map) :
       cache[1].map[k].headers["ETag"] = resp.headers["ETag"]

\* the Maps of a state that requests are looked up in
LiveMaps ==
  { cache[i].map : i \in Handlers } \cup
  { sessions[s][1].map : s \in { x \in Sessions : sessions[x] /= <<>> } }

\* the content entries of those Maps
LiveEntries == UNION { { m[k] : k \in ContentKeys(m) } : m \in LiveMaps }

\* C19: across rebuilds, two content entries have the same validator if and
\* only if they have the same identity bytes.
C19_StrongValidator ==
  \A e1 \in LiveEntries : \A e2 \in LiveEntries :
    e1.headers["ETag"] = e2.headers["ETag"] <=> e1.data[sIdentity] = e2.data[sIdentity]

\* the descriptor the file of an entry was compiled with has no ETag
DigestEntries ==
  { e \in LiveEntries : e.headers["ETag"] = etag(e.data[sIdentity]) }

\* it holds of the entries whose validator is the digest
C19_ButDescriptor ==
  \A e1 \in DigestEntries : \A e2 \in DigestEntries :
    e1.headers["ETag"] = e2.headers["ETag"] <=> e1.data[sIdentity] = e2.data[sIdentity]

\* a file was served whose validator is that of another file with other bytes
C19_Witness ==
  /\ resp.kind = "resource"
  /\ resp.status = 200
  /\ resp.request.url = <<"/","c","/","e",".","a","b","c">>
  /\ \E e \in LiveEntries :
       /\ e.headers["ETag"] = resp.headers["ETag"]
       /\ e.data[sIdentity] /= resp.body

(***************************************************************************)
(* Rebuilding over an unchanged tree (Spec).                               *)
(***************************************************************************)
\* two Maps have the same keys and, at each key, the same headers and the
\* same representations
SameContent(m1, m2) ==
  /\ DOMAIN m1 = DOMAIN m2
  /\ \A k \in DOMAIN m1 :
       /\ m1[k].headers = m2[k].headers
       /\ Has(m1[k], "data") <=> Has(m2[k], "data")
       /\ Has(m1[k], "data") => m1[k].data = m2[k].data

\* a step that replaces the snapshot of instance i by one built from the
\* tree the replaced one was built from, the tree having stayed as it was
\* during both builds
RebuiltUnchanged(i) ==
  /\ cache'[i] /= cache[i]
  /\ cache[i].gen /= 0
  /\ cache[i].clean
  /\ cache'[i].clean
  /\ cache'[i].src = cache[i].src

NegotiationHeaders == { <<>>, <<"g","z","i","p">>, <<"b","r">>, <<"g","z","i","p",","," ","b","r">>, <<"*">>, <<"i","d","e","n","t","i","t","y">> }

\* the same request with another method
WithMethod(request, method) == [ request EXCEPT !.method = method ]

\* C21: a HEAD request is answered with the status and the headers of the
\* GET request for the same url with the same request headers, and with an
\* empty body (SpecNegotiate).
C21_HeadLikeGet ==
  /\ \A i \in Handlers : \A k \in DOMAIN cache[i].map :
       \A ae \in NegotiationHeaders :
         \A inm \in { <<>>, <<"x">> } \cup
                    { cache[i].map[k].headers["ETag"] : x \in { y \in {1} : Has(cache[i].map[k], "data") } } :
           LET found == cache[i].map[k]
               get == Respond(defaultHeaders, found, Req(k, "GET", ConditionalHeaders(inm, ae)))
               head == Respond(defaultHeaders, found, Req(k, "HEAD", ConditionalHeaders(inm, ae)))
           IN  /\ head.status = get.status
               /\ head.headers = get.headers
               /\ head.defaults = get.defaults
               /\ head.body = <<>>
               /\ AcceptResult(i, Req(k, "HEAD", ConditionalHeaders(inm, ae)))
                    = AcceptResult(i, Req(k, "GET", ConditionalHeaders(inm, ae)))
  /\ ( resp.kind = "resource" /\ resp.request.method = "HEAD" ) => resp.body = <<>>

\* a HEAD request was answered 200 with the headers of the gzip
\* representation and no body, where GET sends the body
C21_Witness ==
  /\ resp.kind = "resource"
  /\ resp.request.method = "HEAD"
  /\ resp.status = 200
  /\ resp.body = <<>>
  /\ Has(resp.headers, "Content-Encoding")
  /\ resp.headers["Content-Encoding"] = sGzip
  /\ LET get == Respond(defaultHeaders, resp.found[1], WithMethod(resp.request, "GET"))
     IN  /\ get.status = 200
         /\ get.headers = resp.headers
         /\ get.body /= <<>>

\* C22: with root 'www' and prefix 'files', a request for /files/doc.html is
\* matched and answered with the content of www/doc.html (SpecOptions).
C22_ReadmeExample ==
  \A i \in Handlers :
    ( opts[i] = OptionsFiles /\ W(<<"/","d","o","c",".","h","t","m","l">>) \in DOMAIN Trees[cache[i].src] /\ cache[i].clean )
    => /\ AcceptResult(i, Get(<<"/","f","i","l","e","s","/","d","o","c",".","h","t","m","l">>)) = "resource"
       /\ Answer(i, <<"/","f","i","l","e","s","/","d","o","c",".","h","t","m","l">>).status = 200
       /\ Answer(i, <<"/","f","i","l","e","s","/","d","o","c",".","h","t","m","l">>).body = Trees[cache[i].src][W(<<"/","d","o","c",".","h","t","m","l">>)].bytes

\* the handler of the example holds the document under the key
\* files/doc.html, and a request for /files/doc.html is no match
C22_Witness ==
  \E i \in Handlers :
    /\ opts[i] = OptionsFiles
    /\ <<"f","i","l","e","s","/","d","o","c",".","h","t","m","l">> \in ContentKeys(cache[i].map)
    /\ cache[i].map[<<"f","i","l","e","s","/","d","o","c",".","h","t","m","l">>].data[sIdentity] = <<3>>
    /\ <<"/","f","i","l","e","s","/","d","o","c",".","h","t","m","l">> \notin DOMAIN cache[i].map
    /\ AcceptResult(i, Get(<<"/","f","i","l","e","s","/","d","o","c",".","h","t","m","l">>)) = "none"

\* the first sync() of the factory call for i is over
FirstSyncOver(i) == ready[i] \notin { "idle", "building" }

\* C23 as stated: when the first rebuild fails the handler exists all the
\* same (and answers no match until a later rebuild succeeds).
C23_Original ==
  \A i \in Instances : FirstSyncOver(i) => ready[i] = "ready"

\* nothing of instance i is in progress or pending
NothingOf(i) ==
  /\ \A g \in DOMAIN runs : runs[g].inst /= i
  /\ \A t \in pending : t.inst /= i
  /\ resp.inst /= i

\* C23: when the first rebuild fails the factory call fails with it: there
\* is no handler, so no request is ever offered to it, no rebuild is ever
\* started through it, and its snapshot stays the empty Map (Spec).
C23_FirstFailureNoHandler ==
  [][ \A i \in Instances :
        ready[i] = "failed" =>
          /\ cache[i] = NewMap
          /\ NothingOf(i)
          /\ ready'[i] = "failed"
          /\ cache'[i] = NewMap
          /\ NothingOf(i)' ]_vars

\* the first rebuild has failed and nothing is left to run
C23_Witness ==
  /\ \E i \in Instances : ready[i] = "failed" /\ cache[i] = NewMap
  /\ DOMAIN runs = {}
  /\ pending = {}
  /\ ~Listening

\* ---------------------------------------------------------------------
\* The life of a snapshot, and the default headers
\* ---------------------------------------------------------------------

\* the step is one of accept or of handle on a resource match
RequestStep ==
  \/ pending' /= pending /\ runs' = runs
  \/ sessions' /= sessions
  \/ resp = NoResp /\ resp'.kind = "resource"

\* this step the run g, started by a rebuild match of i or by the factory
\* call for i, makes its Map the active one of i
Replaces(g, i) ==
  /\ runs[g].inst = i
  /\ CanPublish(runs[g])
  /\ g \notin DOMAIN runs'
  /\ cache'[i].gen = runs[g].gen
  /\ cache'[i].map = runs[g].updated
  /\ IF ready[i] = "ready"
     THEN /\ runs[g].trigger /= <<>>
          /\ IsSyncRequest(i, runs[g].trigger[1], runs[g].trigger[1].remoteAddress)
     ELSE /\ runs[g].trigger = <<>>
          /\ ready[i] = "building"

\* C24: the factory yields a handler only after its first sync() has
\* assigned the snapshot, and afterwards the active snapshot is replaced
\* only by a rebuild that a rebuild match started: accept, and handle on a
\* resource match, leave it as it is (Spec).
C24_SnapshotReplacedOnlyByRebuild ==
  [][ /\ \A i \in Instances :
           /\ ready'[i] = "ready" => cache'[i].gen /= 0
           /\ cache'[i] /= cache[i] => \E g \in DOMAIN runs : Replaces(g, i)
      /\ RequestStep => cache' = cache ]_vars

\* the reply to a rebuild match is written, the snapshot of its rebuild
\* being the active one
C24_Witness ==
  /\ resp.kind = "sync"
  /\ resp.status = 200
  /\ ready[resp.inst] = "ready"
  /\ rebuilds >= 1
  /\ cache[resp.inst].gen >= 2
  /\ installed[resp.inst] = cache[resp.inst].gen

\* the Maps that can be looked into: the active ones and the ones that
\* sessions hold, by the number of the rebuild that made them
MapOf(gen) ==
  { cache[i] : i \in { j \in Instances : cache[j].gen = gen } } \cup
  { sessions[s][1] : s \in { x \in Sessions : sessions[x] /= <<>> /\ sessions[x][1].gen = gen } }

\* C25: once published, neither a Map nor an entry of it is modified, by a
\* request or by a later rebuild: a Map that is still held after a step is
\* the Map it was before (SpecNegotiate).
C25_PublishedNeverModified ==
  [][ /\ \A gen \in 1..nextGen : \A m \in MapOf(gen) : \A n \in MapOf(gen)' : n = m
      /\ \A t \in pending : t \in pending' \/ resp'.found = t.found \/ t.found = <<>> ]_vars

\* an entry of a snapshot that a session holds, and that a rebuild has
\* replaced since, was served as it was published
C25_Witness ==
  /\ resp.kind = "resource"
  /\ resp.status = 200
  /\ \E s \in Sessions :
       /\ sessions[s] /= <<>>
       /\ sessions[s][1].gen /= cache[resp.inst].gen
       /\ Has(sessions[s][1].map, uriPath(resp.request.url))
       /\ sessions[s][1].map[uriPath(resp.request.url)] = resp.found[1]
       /\ resp.found[1].gen = sessions[s][1].gen
       /\ ~Has(resp.found[1].headers, "Content-Length")

\* C26: the headers of the response to a resource match are the default
\* headers as the factory left them, overridden by the headers of the
\* entry, with the Content-Length and Content-Encoding of this request's
\* negotiation; and the default headers are the same for every request
\* (SpecNegotiate).
C26_FixedDefaultBundle ==
  /\ defaultHeaders = FactoryHeaders(InitialDefaultHeaders, opts[1])
  /\ ( resp.kind = "resource" /\ resp.status \in { 200, 301, 304 } )
     => resp.headers =
          Respond(FactoryHeaders(InitialDefaultHeaders, opts[1]), resp.found[1], resp.request).headers

\* a 304 response carries the Content-Length that the 200 response before
\* it left in the default headers
C26_Witness ==
  /\ resp.kind = "resource"
  /\ resp.status = 304
  /\ Has(resp.headers, "Content-Length")
  /\ ~Has(Respond(FactoryHeaders(InitialDefaultHeaders, opts[1]), resp.found[1], resp.request).headers,
          "Content-Length")
  /\ defaultHeaders /= FactoryHeaders(InitialDefaultHeaders, opts[1])

\* ---------------------------------------------------------------------
\* Redirects, header precedence, and the trigger path
\* ---------------------------------------------------------------------

\* the keys of the entries without data
RedirectKeys(map) == { k \in DOMAIN map : ~Has(map[k], "data") }

\* the answer to a request for a directory entry is the redirect
RedirectAnswer(a, found) ==
  /\ a.status = 301
  /\ a.body = <<>>
  /\ Has(a.headers, "Location")
  /\ a.headers["Location"] = found.headers["Location"]

\* every directory entry answers the redirect to these methods, whatever
\* the conditional header
RedirectsFor(methods) ==
  \A i \in Handlers : \A k \in RedirectKeys(cache[i].map) :
    \A method \in methods : \A inm \in { <<>>, <<"x">>, <<"*">> } :
      RedirectAnswer(Respond(defaultHeaders, cache[i].map[k],
                             Req(k, method, ConditionalHeaders(inm, <<>>))),
                     cache[i].map[k])

\* C27 as stated: a redirect entry is answered 301 with the Location
\* header and an empty body regardless of the method and of any
\* conditional header.
C27_Original == RedirectsFor({ "GET", "HEAD", "DELETE", "POST" })

\* C27: a redirect entry is answered 301 with the Location header and an
\* empty body to GET and to HEAD, regardless of any conditional header;
\* to any other method it is answered 405 as every entry is (SpecChain).
C27_RedirectForGetAndHead ==
  /\ RedirectsFor({ "GET", "HEAD" })
  /\ \A i \in Handlers : \A k \in RedirectKeys(cache[i].map) :
       \A method \in { "DELETE", "POST" } :
         Respond(defaultHeaders, cache[i].map[k], Req(k, method, EmptyObject)).status = 405
  /\ ( /\ resp.kind = "resource"
       /\ ~Has(resp.found[1], "data")
       /\ resp.request.method \in { "GET", "HEAD" } )
     => RedirectAnswer(resp, resp.found[1])

\* a request for a directory was answered with the redirect to the path
\* with a slash, where DELETE is answered 405
C27_Witness ==
  /\ resp.kind = "resource"
  /\ resp.status = 301
  /\ resp.body = <<>>
  /\ ~Has(resp.found[1], "data")
  /\ resp.headers["Location"] = uriPath(resp.request.url) \o <<"/">>
  /\ Respond(defaultHeaders, resp.found[1], WithMethod(resp.request, "DELETE")).status = 405

\* C28: the validator computed from the bytes has the highest precedence
\* among the headers of an entry: the ETag of every entry is the digest of
\* its identity representation, whatever its type descriptor says
\* (SpecChain).
C28_DigestWins ==
  \A i \in Handlers : \A k \in ContentKeys(cache[i].map) :
    cache[i].map[k].headers["ETag"] = etag(cache[i].map[k].data[sIdentity])

\* an entry of a caller's type has the ETag of the descriptor, which is
\* not the digest of its bytes
C28_Witness ==
  \E i \in Handlers : \E k \in ContentKeys(cache[i].map) :
    /\ Has(types(opts[i]), sAbc)
    /\ Has(types(opts[i])[sAbc].headers, "ETag")
    /\ cache[i].map[k].headers["ETag"] = types(opts[i])[sAbc].headers["ETag"]
    /\ cache[i].map[k].headers["ETag"] /= etag(cache[i].map[k].data[sIdentity])

RECURSIVE ReplaceEvery(_, _, _)
\* s with every occurrence of p replaced by r, from left to right
ReplaceEvery(s, p, r) ==
  IF Len(s) < Len(p) THEN s
  ELSE IF SubSeq(s, 1, Len(p)) = p
       THEN r \o ReplaceEvery(SubSeq(s, Len(p) + 1, Len(s)), p, r)
       ELSE <<Head(s)>> \o ReplaceEvery(Tail(s), p, r)

\* the Cache-Control values of the type table of i
TableCacheControls(i) ==
  { types(opts[i])[x].headers["Cache-Control"] :
      x \in { y \in DOMAIN types(opts[i]) : Has(types(opts[i])[y].headers, "Cache-Control") } }

\* C29: with disallowSharedCache set, sync() rewrites every occurrence of
\* 'public' in the Cache-Control of an entry to 'private' and changes
\* nothing else of the value (SpecOptions).
C29_EveryPublicRewritten ==
  \A i \in Handlers : \A k \in ContentKeys(cache[i].map) :
    ( disallowSharedCache(opts[i]) /\ Has(cache[i].map[k].headers, "Cache-Control") )
    => /\ ~HasPublic(cache[i].map[k].headers["Cache-Control"])
       /\ \E v \in TableCacheControls(i) :
            cache[i].map[k].headers["Cache-Control"] = ReplaceEvery(v, sPublic, sPrivate)

\* a file was served with a Cache-Control whose first 'public' is
\* rewritten and whose second is not
C29_Witness ==
  /\ resp.kind = "resource"
  /\ resp.status = 200
  /\ disallowSharedCache(opts[resp.inst])
  /\ resp.headers["Cache-Control"] = <<"p","r","i","v","a","t","e",",","m","a","x","-","a","g","e","=","9",",","p","u","b","l","i","c">>
  /\ resp.found[1].headers["Cache-Control"] = ReplaceFirst(sPublicTwice, sPublic, sPrivate)

\* a request from this machine
FromLoopback(url, address) == [ Get(url) EXCEPT !.remoteAddress = address ]

\* C30: the trigger is recognised on the normalized path: a request from a
\* loopback address for <prefix>/sync with a query or a fragment is the
\* match that the bare <prefix>/sync is (SpecNegotiate).
C30_TriggerOnNormalizedPath ==
  \A i \in Handlers : \A address \in localAddresses : \A suffix \in { <<"?","x">>, <<"#","f">>, <<"?">> } :
    AcceptResult(i, FromLoopback(SyncUrl(opts[i]) \o suffix, address))
      = AcceptResult(i, FromLoopback(SyncUrl(opts[i]), address))

\* a rebuild started by the bare trigger has been answered, and the same
\* request with a query is no match
C30_Witness ==
  /\ resp.kind = "sync"
  /\ resp.status = 200
  /\ uriPath(SyncUrl(opts[resp.inst]) \o <<"?","x">>) = SyncUrl(opts[resp.inst])
  /\ AcceptResult(resp.inst, FromLoopback(SyncUrl(opts[resp.inst]), <<"::1">>)) = "rebuild"
  /\ AcceptResult(resp.inst, FromLoopback(SyncUrl(opts[resp.inst]) \o <<"?","x">>, <<"::1">>)) = "none"

\* ---------------------------------------------------------------------
\* What accept changes, and sessions (Spec)
\* ---------------------------------------------------------------------

\* what accept returned in this step
NewlyAccepted == pending' \ pending

\* the step is a call of accept that returned a match or attached a Map
AcceptStep ==
  \/ NewlyAccepted /= {}
  \/ \E s \in Sessions : sessions[s] = <<>> /\ sessions'[s] /= <<>>

\* accept leaves alone all that is not a session or its own result
AcceptFrame ==
  /\ cache' = cache
  /\ defaultHeaders' = defaultHeaders
  /\ runs' = runs
  /\ ready' = ready
  /\ installed' = installed
  /\ rebuilds' = rebuilds
  /\ replies' = replies
  /\ resp' = resp
  /\ pending \subseteq pending'

\* C31 as stated: accept modifies nothing, neither handler state, nor the
\* snapshot, nor the request, its stream or its session.
C31_Original ==
  [][ AcceptStep => AcceptFrame /\ sessions' = sessions ]_vars

\* C31: accept returns no match, a rebuild match or a resource match and
\* modifies neither handler state nor a snapshot; of the request it modifies
\* the HTTP/2 session, if there is one and it holds no Map yet: the active
\* Map of the instance is attached to it (Spec).
C31_AcceptOnlyAttaches ==
  [][ AcceptStep =>
        /\ AcceptFrame
        /\ \A s \in Sessions :
             sessions'[s] /= sessions[s] =>
               /\ sessions[s] = <<>>
               /\ \E i \in Handlers : sessions'[s] = <<cache[i]>>
        /\ \A t \in NewlyAccepted :
             /\ t.found = <<>> \/ Has(t.found[1], "headers")
             /\ HasSession(t.request) =>
                  /\ sessions'[t.request.session] /= <<>>
                  /\ sessions'[t.request.session][1].gen = t.looked ]_vars

\* accept has returned a resource match for a request of a session, and the
\* session holds the Map that is the active one
C31_Witness ==
  \E t \in pending :
    /\ t.found /= <<>>
    /\ HasSession(t.request)
    /\ sessions[t.request.session] = <<cache[t.inst]>>
    /\ cache[t.inst].gen /= 0
    /\ resp = NoResp

\* C32: for requests of one HTTP/2 session, accept looks every request up
\* in the Map that was attached to the session at its first request: the
\* Map a session holds stays the same until the session ends, whatever
\* rebuilds complete in between (Spec).
C32_SessionKeepsSnapshot ==
  [][ /\ \A s \in Sessions :
           ( sessions[s] /= <<>> /\ sessions'[s] /= <<>> ) => sessions'[s] = sessions[s]
      /\ \A t \in NewlyAccepted :
           HasSession(t.request) =>
             IF sessions[t.request.session] /= <<>>
             THEN /\ t.looked = sessions[t.request.session][1].gen
                  /\ t.found = MapGet(sessions[t.request.session][1].map, uriPath(t.request.url))
             ELSE /\ t.looked = cache[t.inst].gen
                  /\ t.found = MapGet(cache[t.inst].map, uriPath(t.request.url))
                  /\ sessions'[t.request.session] = <<cache[t.inst]>> ]_vars

\* a request of a session was matched in the Map the session holds, a
\* rebuild having replaced the active one since the session's first request
C32_Witness ==
  \E t \in pending :
    /\ HasSession(t.request)
    /\ t.found /= <<>>
    /\ sessions[t.request.session] /= <<>>
    /\ t.looked = sessions[t.request.session][1].gen
    /\ t.looked < cache[t.inst].gen
    /\ t.arrival = cache[t.inst].gen
    /\ installed[t.inst] = cache[t.inst].gen

\* ---------------------------------------------------------------------
\* Compression failures (SpecFaults)
\* ---------------------------------------------------------------------

\* the entry is one of a file of a type that is to be compressed
OfCompressedType(i, entry) ==
  \E x \in DOMAIN types(opts[i]) :
    /\ TypeCompress(types(opts[i])[x])
    /\ entry.headers = FileHeaders(opts[i], types(opts[i])[x], entry.data[sIdentity])

\* C33: if compressing a file fails during a rebuild, the rebuild as a
\* whole fails: no snapshot is published that has an entry of a
\* compressible type without its gzip or its brotli representation
\* (SpecFaults).
C33_NoEntryWithoutRepresentation ==
  \A i \in Handlers : \A k \in ContentKeys(cache[i].map) :
    OfCompressedType(i, cache[i].map[k])
    => Has(cache[i].map[k].data, sGzip) /\ Has(cache[i].map[k].data, sBr)

\* a published entry has no brotli representation, and handle, given a
\* request that accepts brotli, threw before it wrote anything
C33_Witness ==
  /\ resp.kind = "resource"
  /\ resp.status = 0
  /\ resp.headers = EmptyObject
  /\ OfCompressedType(resp.inst, resp.found[1])
  /\ Has(resp.found[1].data, sGzip)
  /\ ~Has(resp.found[1].data, sBr)
  /\ bestSupportedEncoding(resp.request.headers) = sBr
  /\ \E k \in ContentKeys(cache[resp.inst].map) : cache[resp.inst].map[k] = resp.found[1]

\* ---------------------------------------------------------------------
\* The type table, overlapping rebuilds, and the keys of a snapshot
\* ---------------------------------------------------------------------

\* the instances made with a type table of the caller's
Configured == { i \in Settled : Has(opts[i], "allowedFileTypes") }

\* the files of the tree that are not hidden
VisibleFiles(i, tree) == { p \in FilesOf(tree) : ~HiddenPath(Relative(opts[i], p)) }

\* C34: a configured allowedFileTypes replaces the built-in table wholesale:
\* the snapshot holds the files of exactly the configured extensions, and
\* files whose extension is only in the built-in table are absent
\* (SpecContent).
C34_ExactlyConfiguredExtensions ==
  \A i \in Configured : \A p \in VisibleFiles(i, TreeOf(cache[i])) :
    ExtensionOf(Relative(opts[i], p)) \in DOMAIN opts[i].allowedFileTypes
    <=> PublicPath(i, p) \in ContentKeys(cache[i].map)

\* The same for the files whose extension is not the name of a property
\* that every object inherits.
C34_ButInherited ==
  \A i \in Configured : \A p \in VisibleFiles(i, TreeOf(cache[i])) :
    ExtensionOf(Relative(opts[i], p)) \notin ObjectPrototypeNames =>
      ( ExtensionOf(Relative(opts[i], p)) \in DOMAIN opts[i].allowedFileTypes
        <=> PublicPath(i, p) \in ContentKeys(cache[i].map) )

\* the snapshot of a handler with a table of the single key abc holds the
\* file of that extension and the file t.valueOf
C34_Witness ==
  \E i \in Configured :
    /\ DOMAIN opts[i].allowedFileTypes = { sAbc }
    /\ \E p \in VisibleFiles(i, TreeOf(cache[i])) :
         /\ ExtensionOf(Relative(opts[i], p)) = sAbc
         /\ PublicPath(i, p) \in ContentKeys(cache[i].map)
    /\ \E p \in VisibleFiles(i, TreeOf(cache[i])) :
         /\ ExtensionOf(Relative(opts[i], p)) = <<"v","a","l","u","e","O","f">>
         /\ PublicPath(i, p) \in ContentKeys(cache[i].map)
         /\ AcceptResult(i, Get(PublicPath(i, p))) = "resource"

\* C35: when rebuilds overlap, snapshot generations are never rolled back:
\* the active snapshot is only ever replaced by the snapshot of a rebuild
\* that started later, so that once all rebuilds have completed the active
\* one is that of the rebuild that started last (Spec).
C35_NeverRolledBack ==
  [][ \A i \in Instances :
        cache'[i] /= cache[i] => cache'[i].gen > cache[i].gen ]_vars

\* all rebuilds have been answered; a session holds the snapshot of the one
\* that started last, built from the tree as it is now, and the active
\* snapshot is that of the one before, built from the tree as it was
C35_Witness ==
  /\ resp.kind = "sync"
  /\ resp.status = 200
  /\ DOMAIN runs = {}
  /\ rebuilds = replies
  /\ \E s \in Sessions :
       /\ sessions[s] /= <<>>
       /\ sessions[s][1].gen > cache[resp.inst].gen
       /\ sessions[s][1].gen = nextGen - 1
       /\ sessions[s][1].src = disk
       /\ cache[resp.inst].src /= disk
       /\ \E k \in ContentKeys(cache[resp.inst].map) : k \notin DOMAIN sessions[s][1].map

\* prefix + the path relative to the root, file name included
WholePath(i, p) == prefix(opts[i]) \o Relative(opts[i], p)

\* the name of the node
NameOf(rel) == NamesOf(rel)[Len(NamesOf(rel))]

\* C36: only a file whose name is exactly index.html has its file name
\* removed from its public path; every other recognized file is keyed by
\* prefix + its whole path relative to the root, and the redirect entry of
\* a directory is never replaced by the content entry of a file (SpecKeys).
C36_OnlyIndexHtmlStripped ==
  \A i \in Settled :
    /\ \A p \in RecognizedFiles(i, TreeOf(cache[i])) :
         IF NameOf(Relative(opts[i], p)) = <<"i","n","d","e","x",".","h","t","m","l">>
         THEN SubSeq(WholePath(i, p), 1, Len(WholePath(i, p)) - 10) \in ContentKeys(cache[i].map)
         ELSE WholePath(i, p) \in ContentKeys(cache[i].map)
    /\ \A d \in DirectoriesOf(TreeOf(cache[i])) :
         ~HiddenPath(Relative(opts[i], d)) => WholePath(i, d) \in RedirectKeys(cache[i].map)

\* a request for a directory was answered 200 with the bytes of the file
\* whose name is the directory's followed by index.html
C36_Witness ==
  /\ resp.kind = "resource"
  /\ resp.status = 200
  /\ resp.inst \in Settled
  /\ \E d \in DirectoriesOf(TreeOf(cache[resp.inst])) :
       /\ uriPath(resp.request.url) = WholePath(resp.inst, d)
       /\ d \o <<"i","n","d","e","x",".","h","t","m","l">> \in FilesOf(TreeOf(cache[resp.inst]))
       /\ resp.body = TreeOf(cache[resp.inst])[d \o <<"i","n","d","e","x",".","h","t","m","l">>].bytes
       /\ WholePath(resp.inst, d \o <<"i","n","d","e","x",".","h","t","m","l">>) \notin DOMAIN cache[resp.inst].map

\* ---------------------------------------------------------------------
\* One response per call of handle, and termination
\* ---------------------------------------------------------------------

\* what handle was given in this step
Handled == pending \ pending'

\* the sync() calls started by a rebuild match that end in this step
Ended == { g \in DOMAIN runs : g \notin DOMAIN runs' /\ runs[g].trigger /= <<>> }

\* every call of handle writes one status line, at once for a resource
\* match and when its sync() call ends for a rebuild match
OneResponse(handled) ==
  /\ \A t \in handled :
       IF t.found /= <<>>
       THEN /\ resp'.kind = "resource"
            /\ resp'.request = t.request
            /\ resp'.status \in { 200, 301, 304, 405 }
       ELSE /\ resp' = NoResp
            /\ \E g \in DOMAIN runs' \ DOMAIN runs : runs'[g].trigger = <<t.request>>
  /\ \A g \in Ended :
       /\ resp'.kind = "sync"
       /\ resp'.request = runs[g].trigger[1]
       /\ resp'.status \in { 200, 500 }

\* C37: every call of handle writes exactly one status line and ends the
\* response exactly once; for a resource match the response is complete
\* when handle returns, and only a rebuild match completes its response
\* later (SpecFaults).
C37_OneResponsePerCall ==
  [][ OneResponse(Handled) ]_vars

\* The same for the calls of handle with an entry that has the
\* representation the request negotiates.
C37_ButThrown ==
  [][ OneResponse({ t \in Handled : t.found = <<>> \/ ~Has(t.found[1], "data")
                                    \/ ~Throws(t.found[1], t.request) }) ]_vars

\* handle was given a GET that accepts brotli and an entry without brotli
\* representation: it has returned, Content-Encoding is set in the default
\* headers, and no status line is written
C37_Witness ==
  /\ resp.kind = "resource"
  /\ resp.status = 0
  /\ resp.body = <<>>
  /\ resp.request.method = "GET"
  /\ Throws(resp.found[1], resp.request)
  /\ Has(defaultHeaders, "Content-Encoding")
  /\ defaultHeaders["Content-Encoding"] = sBr
  /\ ~Has(defaultHeaders, "Content-Length")
  /\ \A t \in pending : t.request /= resp.request

\* C38: every rebuild terminates on a finite tree, so every factory call
\* returns or fails and every rebuild trigger eventually receives its reply,
\* 200 or 500, provided the callbacks of the filesystem and of the
\* compression eventually fire (SpecLive).
C38_EveryRebuildAnswered ==
  /\ \A n \in 1..MaxContentRebuilds : (rebuilds >= n) ~> (replies >= n)
  /\ \A i \in { 1, 2 } :
       (i \in DOMAIN ready /\ ready[i] = "building")
         ~> (i \in DOMAIN ready /\ ready[i] \in { "ready", "failed" })
  /\ []<>(DOMAIN runs = {})

\* every rebuild that was triggered has been answered, the last one with
\* 200, and no sync() call is in progress
C38_Witness ==
  /\ rebuilds >= 1
  /\ replies = rebuilds
  /\ DOMAIN runs = {}
  /\ resp.kind = "sync"
  /\ resp.status = 200
  /\ resp.gen = cache[resp.inst].gen
  /\ \A i \in Instances : ready[i] = "ready"

\* ---------------------------------------------------------------------
\* One session, several handlers (SpecChain)
\* ---------------------------------------------------------------------

\* C39: when several instances examine requests of one HTTP/2 session, each
\* looks the path up in its own snapshot: a path of an instance's active
\* snapshot is matched by that instance even if another instance examined a
\* request of the session first.  Stated for the behaviours without
\* rebuild, in which every instance has had one snapshot only (SpecChain).
C39_OwnSnapshotOnSession ==
  \A i \in Handlers : \A s \in Sessions : \A k \in DOMAIN cache[i].map :
    ( Listening /\ rebuilds = 0 /\ DOMAIN runs = {} )
    => /\ AcceptResult(i, OnSession(Get(k), s)) = "resource"
       /\ Accepted(i, OnSession(Get(k), s)).found = <<cache[i].map[k]>>

\* the first handler has matched a request of a session, which holds its
\* Map since; for a request of that session the second handler does not
\* match a path of its own snapshot, which it matches without session
C39_Witness ==
  /\ Listening
  /\ rebuilds = 0
  /\ 2 \in Handlers
  /\ \E t \in pending : t.inst = 1 /\ HasSession(t.request)
                        /\ sessions[t.request.session] = <<cache[1]>>
  /\ \E s \in Sessions : \E k \in ContentKeys(cache[2].map) :
       /\ sessions[s] = <<cache[1]>>
       /\ AcceptResult(2, Get(k)) = "resource"
       /\ AcceptResult(2, OnSession(Get(k), s)) = "none"

====
